---- MODULE Spec2Model ----
(***************************************************************************)
(* State-machine model of word2vec-rust: the two corpus tokenizers         *)
(* (src/src/tokenizer.rs) and the vocabulary (src/src/vocab.rs).           *)
(*                                                                         *)
(* Bytes are their numeric values.  Vectors (Vec<u8>, String, Vec<T>) are  *)
(* sequences; the code's 0-based index i is element i+1 of the sequence.   *)
(* Option<T> is a sequence of length at most one: None is <<>> and         *)
(* Some(x) is <<x>>.                                                       *)
(*                                                                         *)
(* The sizes READ_BUFFER_SIZE, MAX_TOKEN_LEN and VOCAB_HASH_TABLE_SIZE are *)
(* scaled down from the values of the source (8192, 64, 30_000_000), with  *)
(* their order kept (MAX_TOKEN_LEN < READ_BUFFER_SIZE).                    *)
(***************************************************************************)
EXTENDS Integers, Sequences, FiniteSets, TLC

VARIABLES
    corpus,      \* contents of the training file, a sequence of bytes
    it,          \* the FileTokenIterator under test
    offset,      \* offset of the last new(file, offset) or reset(offset)
    out,         \* tokens returned by read_token since then
    eosAt,       \* Len(out) when read_token first returned None since then, or -1
    fresh,       \* Some(iterator made by new(file, offset) at the last reset)
    agree,       \* every call since the last reset returned the same from both
    resetFrom,   \* Some(what the iterator was like when it was last reset)
    cb,          \* Some(tokens passed to the callback by read_file_by_tokens)
    mode,        \* what is run: "tokenize", "learn" or "load"
    vfile,       \* contents of the vocabulary file, a sequence of bytes
    arg_min_count, \* the min_count learn_vocabulary_from_training_file was given
    vocab,       \* the Vocabulary being built
    vphase,      \* "start", "scan" (learning), "Ok", "Err", "panic" or "loops"
    verr,        \* the message of the error returned, or of the walk's panic
    nextTok,     \* index in cb[1] of the next token the callback gets
    preSort,     \* the entries when the scan ended, before sort_vocab
    reloaded,    \* Some(what load_from_file made of the file save_to_file wrote)
    sampled,     \* Some(what sample_random_word did on the vocabulary)
    params,      \* the TrainigParams of the training run
    tmain,       \* the thread that runs train(): where it is, what it did
    net,         \* the NeuralNet shared by the workers
    locks,       \* the row locks of net.locker: who holds each stripe
    wk,          \* the local state of each train_model_thread, by thread_id
    word_count_actual, \* progress.word_count_actual
    io,          \* I/O failures: how many may still happen, which have happened
    ghost,       \* what the row updates of each matrix should add up to
    prev         \* Some(vocabulary and matrices of the run before this one)

tokvars == <<corpus, it, offset, out, eosAt, fresh, agree, resetFrom, cb>>

vocvars == <<mode, vfile, arg_min_count, vocab, vphase, verr, nextTok, preSort>>

rtvars == <<reloaded>>

smvars == <<sampled>>

trainvars == <<params, tmain, net, locks, wk, word_count_actual, io, ghost, prev>>

extravars == <<rtvars, smvars, trainvars>>

vars == <<tokvars, vocvars, extravars>>

----------------------------------------------------------------------------
(* Bounds of the model                                                     *)

MaxCorpusLen == 3

\* the width in bits of the i64 and usize of the model (64 in the source)
SeedBits == 6

----------------------------------------------------------------------------
(* Bytes                                                                   *)

LF == 10
SP == 32
TAB == 9
CR == 13

\* the bytes a corpus of the model is made of: two separators, the ASCII
\* letter "a" (97) and the two bytes of the UTF-8 character U+00E9 (195 169)
CorpusBytes == {LF, SP, 97, 195, 169}

\* the bytes of the corpora an iterator is reset on
ResetBytes == {LF, SP, 97}

None == <<>>
Some(x) == <<x>>

\* no training run: train() has not come to its workers
TrainIdle ==
    /\ params = <<>>
    /\ tmain = [pc |-> "idle", saves |-> 0, result |-> ""]
    /\ net = <<>>
    /\ locks = <<>>
    /\ wk = <<>>
    /\ word_count_actual = 0
    /\ io = [faults |-> 0, failed |-> {}]
    /\ ghost = <<>>
    /\ prev = None

\* nothing saved and loaded again, no word sampled, no training run
ExtraIdle == reloaded = None /\ sampled = None /\ TrainIdle

\* "</s>" and "<INV>"
SENTINEL == <<60, 47, 115, 62>>
INV == <<60, 73, 78, 86, 62>>

Min(a, b) == IF a < b THEN a ELSE b

RECURSIVE Flatten(_)
Flatten(seqs) == IF seqs = <<>> THEN <<>> ELSE Head(seqs) \o Flatten(Tail(seqs))

SeqsUpTo(S, n) == UNION {[1 .. k -> S] : k \in 0 .. n}

----------------------------------------------------------------------------
(* tokenizer.rs                                                            *)

READ_BUFFER_SIZE == 3
MAX_TOKEN_LEN == 2

is_token_separator(byte) == byte = LF \/ byte = SP \/ byte = TAB \/ byte = CR

is_doc_separator(byte) == byte = LF

\* String::from_utf8 succeeds: ASCII bytes, and two-byte characters made of a
\* lead byte 0xC2..0xDF and a continuation byte 0x80..0xBF (the model has no
\* byte >= 0xE0)
RECURSIVE Utf8Valid(_)
Utf8Valid(v) ==
    IF v = <<>> THEN TRUE
    ELSE IF v[1] < 128 THEN Utf8Valid(Tail(v))
    ELSE IF v[1] >= 194 /\ v[1] < 224 /\ Len(v) >= 2 /\ v[2] >= 128 /\ v[2] < 192
         THEN Utf8Valid(SubSeq(v, 3, Len(v)))
    ELSE FALSE

vec_to_string_opt(v) == Some(IF Utf8Valid(v) THEN v ELSE INV)

\* data[from..to] of the code: 0-based, `to` excluded
Slice(data, from, to) == SubSeq(data, from + 1, to)

\* data.iter().position(is_token_separator): Some(0-based index) or None
RECURSIVE PositionFrom(_, _)
PositionFrom(data, i) ==
    IF i >= Len(data) THEN None
    ELSE IF is_token_separator(data[i + 1]) THEN Some(i)
    ELSE PositionFrom(data, i + 1)

position(data) == PositionFrom(data, 0)

\* The sizes physical reads may return: plan[p] is the size of a read at file
\* position p >= from, at least 1 and at most the bytes left and the buffer
\* size.
ReadPlans(from) ==
    {p \in [from .. Len(corpus) - 1 -> 1 .. READ_BUFFER_SIZE] :
        \A q \in from .. Len(corpus) - 1 : p[q] <= Len(corpus) - q}

ReadSize(pos, plan) == IF pos >= Len(corpus) THEN 0 ELSE plan[pos]

\* FileTokenIterator::new
NewIterator(off) ==
    [ pos |-> off,
      start_pos |-> 0,
      end_pos |-> 0,
      read_buffer |-> [i \in 1 .. READ_BUFFER_SIZE |-> 0],
      rest |-> <<>>,
      output_separator |-> FALSE ]

\* FileTokenIterator::reset
ResetRest(rest) == <<>>

\* (a slip: the pending sentinel survives the reset)
ResetSeparatorKept(flag) == flag

ResetSeparator(flag) == FALSE

ResetIterator(fi, off) ==
    [ fi EXCEPT !.pos = off,
                !.start_pos = 0,
                !.end_pos = 0,
                !.rest = ResetRest(fi.rest),
                !.output_separator = ResetSeparator(fi.output_separator) ]

\* self.file.read(&mut self.read_buffer[..]).unwrap_or(0) with start_pos = 0
FileRead(fi, plan) ==
    LET n == ReadSize(fi.pos, plan) IN
    [ fi EXCEPT !.start_pos = 0,
                !.end_pos = n,
                !.pos = fi.pos + n,
                !.read_buffer = [i \in 1 .. READ_BUFFER_SIZE |->
                                    IF i <= n THEN corpus[fi.pos + i]
                                    ELSE fi.read_buffer[i]] ]

\* (a slip: no token is skipped)
EmptyTokenNever(token_start, token_end) == FALSE

\* the test `token_end == token_start` that skips an empty token
EmptyToken(token_start, token_end) == token_end = token_start

\* The for loop over read_buffer[start_pos..end_pos]; token_end is also the
\* index of the byte looked at.  found: the loop left with a token.
RECURSIVE ScanBuffer(_, _, _, _)
ScanBuffer(fi, token_start, token_end, sep) ==
    IF token_end >= fi.end_pos
    THEN [found |-> FALSE, token_start |-> token_start, token_end |-> token_end,
          output_separator |-> sep]
    ELSE LET byte == fi.read_buffer[token_end + 1] IN
         IF ~is_token_separator(byte)
         THEN ScanBuffer(fi, token_start, token_end + 1, sep)
         ELSE LET sep1 == sep \/ is_doc_separator(byte) IN
              IF EmptyToken(token_start, token_end)
              THEN ScanBuffer(fi, token_end + 1, token_end + 1, sep1)
              ELSE [found |-> TRUE, token_start |-> token_start,
                    token_end |-> token_end, output_separator |-> sep1]

\* the test `self.rest.len() < MAX_TOKEN_LEN` that keeps collecting a token
KeepCollecting(rest) == Len(rest) < MAX_TOKEN_LEN

\* 'readloop of read_token: the iterator afterwards and the Option returned
RECURSIVE readloop(_, _)
readloop(fi0, plan) ==
    LET refill == fi0.start_pos = fi0.end_pos
        fi == IF refill THEN FileRead(fi0, plan) ELSE fi0
    IN
    IF refill /\ fi.end_pos = 0
    THEN IF fi.rest # <<>>
         THEN [it |-> [fi EXCEPT !.rest = <<>>], res |-> vec_to_string_opt(fi.rest)]
         ELSE [it |-> fi, res |-> None]
    ELSE
    LET pos == IF fi.rest # <<>>
               THEN position(Slice(fi.read_buffer, fi.start_pos, fi.end_pos))
               ELSE None
    IN
    IF pos # None
    THEN LET p == pos[1]
             whole == fi.rest \o Slice(fi.read_buffer, fi.start_pos, fi.start_pos + p)
         IN [it |-> [fi EXCEPT !.rest = <<>>,
                               !.start_pos = fi.start_pos + p + 1,
                               !.output_separator =
                                   fi.output_separator
                                   \/ is_doc_separator(fi.read_buffer[fi.start_pos + p + 1])],
             res |-> vec_to_string_opt(whole)]
    ELSE
    LET scan == ScanBuffer(fi, fi.start_pos, fi.start_pos, fi.output_separator) IN
    IF scan.found
    THEN [it |-> [fi EXCEPT !.start_pos = scan.token_end + 1,
                            !.output_separator = scan.output_separator],
          res |-> vec_to_string_opt(Slice(fi.read_buffer, scan.token_start, scan.token_end))]
    ELSE IF scan.token_end > scan.token_start
    THEN LET rest1 == fi.rest \o Slice(fi.read_buffer, scan.token_start, scan.token_end)
             fi1 == [fi EXCEPT !.rest = rest1,
                               !.start_pos = fi.end_pos,
                               !.output_separator = scan.output_separator]
         IN IF KeepCollecting(rest1)
            THEN readloop(fi1, plan)
            ELSE [it |-> [fi1 EXCEPT !.rest = <<>>], res |-> vec_to_string_opt(rest1)]
    ELSE readloop([fi EXCEPT !.start_pos = scan.token_end,
                             !.end_pos = scan.token_end,
                             !.output_separator = scan.output_separator], plan)

\* FileTokenIterator::read_token
read_token(fi, plan) ==
    IF fi.output_separator
    THEN [it |-> [fi EXCEPT !.output_separator = FALSE], res |-> Some(SENTINEL)]
    ELSE readloop(fi, plan)

\* The for loop of read_file_by_tokens over data[skip_bytes..]: the tokens
\* passed to the callback so far, and token_start/token_end at its end.
RECURSIVE ScanData(_, _, _, _)
ScanData(data, token_start, token_end, toks) ==
    IF token_end >= Len(data)
    THEN [toks |-> toks, token_start |-> token_start, token_end |-> token_end]
    ELSE LET byte == data[token_end + 1] IN
         IF is_token_separator(byte)
         THEN LET t1 == IF token_end > token_start
                        THEN Append(toks, Slice(data, token_start, token_end))
                        ELSE toks
                  t2 == IF is_doc_separator(byte) THEN Append(t1, SENTINEL) ELSE t1
              IN ScanData(data, token_end + 1, token_end + 1, t2)
         ELSE ScanData(data, token_start, token_end + 1, toks)

\* The loop of read_file_by_tokens from file position pos: every token passed
\* to token_callback, in order.
RECURSIVE read_file_loop(_, _, _, _)
read_file_loop(pos, rest, toks, plan) ==
    LET n == ReadSize(pos, plan)
        data == Slice(corpus, pos, pos + n)
    IN
    IF n = 0
    THEN IF rest # <<>> THEN Append(toks, rest) ELSE toks
    ELSE
    LET sp == IF rest # <<>> THEN position(data) ELSE None
        joined == sp # None
        toks1 == IF joined
                 THEN LET w == Append(toks, rest \o Slice(data, 0, sp[1]))
                      IN IF is_doc_separator(data[sp[1] + 1]) THEN Append(w, SENTINEL) ELSE w
                 ELSE toks
        rest1 == IF joined THEN <<>> ELSE rest
        skip_bytes == IF joined THEN sp[1] + 1 ELSE 0
        scan == ScanData(data, skip_bytes, skip_bytes, toks1)
        rest2 == IF scan.token_end - scan.token_start # 0
                 THEN rest1 \o Slice(data, scan.token_start, scan.token_end)
                 ELSE rest1
    IN read_file_loop(pos + n, rest2, scan.toks, plan)

read_file_by_tokens(plan) == read_file_loop(0, <<>>, <<>>, plan)

----------------------------------------------------------------------------
(* vocab.rs                                                                *)

VOCAB_HASH_TABLE_SIZE == 5

\* the value of an empty hash slot and of a failed search
NOT_FOUND == -1

RECURSIVE ByteSum(_)
ByteSum(word) == IF word = <<>> THEN 0 ELSE Head(word) + ByteSum(Tail(word))

\* DefaultHasher is a fixed function of the word's bytes; the model takes
\* their sum, under which "b" and "ea", and "</s>" and "eb", collide
get_word_hash_index(word) == ByteSum(word) % VOCAB_HASH_TABLE_SIZE

\* Vocabulary::new
NewVocabulary ==
    [ words |-> <<>>,
      hash_table |-> [i \in 1 .. VOCAB_HASH_TABLE_SIZE |-> NOT_FOUND],
      train_words |-> 0,
      min_reduce |-> 1,
      unigram_table |-> <<>> ]

\* the probing step `hidx = (hidx + 1) % VOCAB_HASH_TABLE_SIZE`
NextSlot(hidx) == (hidx + 1) % VOCAB_HASH_TABLE_SIZE

\* The probing loop of search_word and get_word_indices from slot hash_idx,
\* after `probed` slots.  ends is FALSE when every slot was probed and none
\* was empty or held the word: the loop of the code then goes round forever.
RECURSIVE Probe(_, _, _, _)
Probe(v, word, hash_idx, probed) ==
    IF probed = VOCAB_HASH_TABLE_SIZE
    THEN [ends |-> FALSE, hash_idx |-> hash_idx, word_idx |-> NOT_FOUND]
    ELSE LET wi == v.hash_table[hash_idx + 1] IN
         IF wi = NOT_FOUND
         THEN [ends |-> TRUE, hash_idx |-> hash_idx, word_idx |-> NOT_FOUND]
         ELSE IF v.words[wi + 1].word = word
         THEN [ends |-> TRUE, hash_idx |-> hash_idx, word_idx |-> wi]
         ELSE Probe(v, word, NextSlot(hash_idx), probed + 1)

get_word_indices(v, word) == Probe(v, word, get_word_hash_index(word), 0)

\* Vocabulary::search_word: Some(word index or -1), None when it never returns
search_word(v, word) ==
    LET r == Probe(v, word, get_word_hash_index(word), 0)
    IN IF r.ends THEN Some(r.word_idx) ELSE None

\* the loop of rebuild_hashtable over the words from index widx on; None when
\* its while loop finds no empty slot
RECURSIVE FreeSlot(_, _, _)
FreeSlot(table, hidx, probed) ==
    IF probed = VOCAB_HASH_TABLE_SIZE THEN None
    ELSE IF table[hidx + 1] = NOT_FOUND THEN Some(hidx)
    ELSE FreeSlot(table, NextSlot(hidx), probed + 1)

RECURSIVE RebuildFrom(_, _, _, _)
RebuildFrom(words, widx, table, total) ==
    IF widx >= Len(words) THEN Some([hash_table |-> table, train_words |-> total])
    ELSE LET slot == FreeSlot(table, get_word_hash_index(words[widx + 1].word), 0) IN
         IF slot = None THEN None
         ELSE RebuildFrom(words, widx + 1,
                          [table EXCEPT ![slot[1] + 1] = widx],
                          total + words[widx + 1].count)

\* Vocabulary::rebuild_hashtable, on a vocabulary with fewer words than slots
rebuild_hashtable(v) ==
    LET r == RebuildFrom(v.words, 0,
                         [i \in 1 .. VOCAB_HASH_TABLE_SIZE |-> NOT_FOUND], 0)[1]
    IN [v EXCEPT !.hash_table = r.hash_table, !.train_words = r.train_words]

\* Vec::swap_remove(idx)
swap_remove(words, idx) ==
    LET n == Len(words) IN
    IF idx = n - 1 THEN SubSeq(words, 1, n - 1)
    ELSE [i \in 1 .. n - 1 |-> IF i = idx + 1 THEN words[n] ELSE words[i]]

\* the inner while loop of reduce_vocab
RECURSIVE LastKept(_, _, _, _)
LastKept(words, idx, last, min_reduce) ==
    IF last > idx /\ words[last + 1].count <= min_reduce
    THEN LastKept(words, idx, last - 1, min_reduce)
    ELSE last

\* (a slip: < for <=)
InfrequentStrict(count, min_reduce) == count < min_reduce

\* the test of reduce_vocab for an entry to drop
Infrequent(count, min_reduce) == count <= min_reduce

\* the outer loop of reduce_vocab
RECURSIVE ReduceLoop(_, _, _)
ReduceLoop(words, idx, min_reduce) ==
    IF idx >= Len(words) THEN words
    ELSE IF Infrequent(words[idx + 1].count, min_reduce)
    THEN LET last == LastKept(words, idx, Len(words) - 1, min_reduce)
         IN ReduceLoop(swap_remove(SubSeq(words, 1, last + 1), idx), idx, min_reduce)
    ELSE ReduceLoop(words, idx + 1, min_reduce)

\* Vocabulary::reduce_vocab
reduce_vocab(v) ==
    rebuild_hashtable([v EXCEPT !.words = ReduceLoop(v.words, 1, v.min_reduce),
                                !.min_reduce = v.min_reduce + 1])

\* the test of add_word that starts a pruning pass (len > 0.7 * size)
TooFull(len) == 10 * len > 7 * VOCAB_HASH_TABLE_SIZE

\* Vocabulary::add_word: Some(vocabulary afterwards), None when the probing
\* loop never ends
add_word(v, word) ==
    LET r == get_word_indices(v, word) IN
    IF ~r.ends THEN None
    ELSE
    LET v1 == IF r.word_idx = NOT_FOUND
              THEN [v EXCEPT !.words = Append(v.words, [word |-> word, count |-> 1]),
                             !.hash_table[r.hash_idx + 1] = Len(v.words)]
              ELSE [v EXCEPT !.words[r.word_idx + 1].count = @ + 1]
        v2 == [v1 EXCEPT !.train_words = @ + 1]
    IN Some(IF TooFull(Len(v2.words)) THEN reduce_vocab(v2) ELSE v2)

\* Vocabulary::add_word_with_count: "ok" with the vocabulary afterwards,
\* "panic" when the assertion fails, "loops" when the probing never ends
add_word_with_count(v, word, count) ==
    LET r == get_word_indices(v, word) IN
    IF ~r.ends THEN [kind |-> "loops", vocab |-> v]
    ELSE IF r.word_idx # NOT_FOUND THEN [kind |-> "panic", vocab |-> v]
    ELSE [kind |-> "ok",
          vocab |-> [v EXCEPT !.words = Append(v.words, [word |-> word, count |-> count]),
                              !.hash_table[r.hash_idx + 1] = Len(v.words),
                              !.train_words = @ + count]]

\* slice::sort_by_key with the key u32::MAX - count: a stable sort, larger
\* counts first
RECURSIVE InsertSorted(_, _)
InsertSorted(sorted, w) ==
    IF sorted = <<>> THEN <<w>>
    ELSE IF Head(sorted).count >= w.count THEN <<Head(sorted)>> \o InsertSorted(Tail(sorted), w)
    ELSE <<w>> \o sorted

RECURSIVE SortByCount(_)
SortByCount(words) ==
    IF words = <<>> THEN <<>>
    ELSE InsertSorted(SortByCount(SubSeq(words, 1, Len(words) - 1)), words[Len(words)])

\* (a slip: > for >=)
FrequentStrict(w, min_count) == w.count > min_count

\* the predicate of sort_vocab's partition_point
Frequent(w, min_count) == w.count >= min_count

\* slice::partition_point is a binary search; the slice sort_vocab gives it
\* is not always partitioned (the sentinel at index 0 is not sorted), so the
\* index found is what the search of the standard library finds.  This is
\* binary_search_by as of Rust 1.82: base moves to mid when the predicate holds.
RECURSIVE BinarySearch(_, _, _, _)
BinarySearch(words, min_count, base, size) ==
    IF size > 1
    THEN LET half == size \div 2
             mid == base + half
         IN BinarySearch(words, min_count,
                         IF Frequent(words[mid + 1], min_count) THEN mid ELSE base,
                         size - half)
    ELSE base + (IF Frequent(words[base + 1], min_count) THEN 1 ELSE 0)

\* ... and binary_search_by before Rust 1.82: left and right close in on mid
RECURSIVE BinarySearchOld(_, _, _, _)
BinarySearchOld(words, min_count, left, right) ==
    IF left < right
    THEN LET mid == left + (right - left) \div 2 IN
         IF Frequent(words[mid + 1], min_count)
         THEN BinarySearchOld(words, min_count, mid + 1, right)
         ELSE BinarySearchOld(words, min_count, left, mid)
    ELSE left

partition_point(words, min_count) ==
    IF words = <<>> THEN {0}
    ELSE {BinarySearch(words, min_count, 0, Len(words)),
          BinarySearchOld(words, min_count, 0, Len(words))}

\* (a slip: the sentinel is sorted with the rest)
sort_vocab_all(v, min_count) ==
    LET sorted == SortByCount(v.words)
    IN {rebuild_hashtable([v EXCEPT !.words = SubSeq(sorted, 1, idx)]) :
            idx \in partition_point(sorted, min_count)}

\* Vocabulary::sort_vocab: the vocabularies it may leave, one for each index
\* partition_point may return
sort_vocab(v, min_count) ==
    LET sorted == <<v.words[1]>> \o SortByCount(Tail(v.words))
    IN {rebuild_hashtable([v EXCEPT !.words = SubSeq(sorted, 1, idx)]) :
            idx \in partition_point(sorted, min_count)}

UNIGRAM_TABLE_SIZE == 6

\* the shift of sample_random_word (16 in the source, scaled with the width)
RAND_SHIFT == 2

\* f64::powf(count, 0.75) in thousandths, for the counts of the model (the
\* fractions of the code become exact ratios of these; the rounding of f64
\* is far below 1 / UNIGRAM_TABLE_SIZE for any vocabulary the table holds)
WORD_POWER(count) ==
    IF count = 0 THEN 0
    ELSE <<1000, 1682, 2280, 2828, 3344, 3834, 4304, 4757, 5196, 5623>>[count]

RECURSIVE PowerSum(_)
PowerSum(words) ==
    IF words = <<>> THEN 0 ELSE WORD_POWER(Head(words).count) + PowerSum(Tail(words))

\* (a slip: `frac =` for `frac +=`)
NextFracAssigned(words, word_idx, frac_num) == WORD_POWER(words[word_idx + 1].count)

\* `frac += f64::powf(self.words[word_idx].count as f64, WORD_POWER) /
\* train_words_pow`, word_idx being the index already advanced
NextFrac(words, word_idx, frac_num) == frac_num + WORD_POWER(words[word_idx + 1].count)

\* The loop of init_unigram_table from slot idx on, frac being
\* frac_num / train_words_pow (NaN when train_words_pow is 0: no comparison
\* with it is true).  None when words[word_idx] is out of bounds.
RECURSIVE UnigramLoop(_, _, _, _, _, _)
UnigramLoop(words, idx, word_idx, frac_num, train_words_pow, table) ==
    IF idx = UNIGRAM_TABLE_SIZE THEN Some(table)
    ELSE LET tab == Append(table, word_idx) IN
         IF train_words_pow # 0 /\ idx * train_words_pow > frac_num * UNIGRAM_TABLE_SIZE
         THEN IF word_idx + 1 >= Len(words) THEN None
              ELSE UnigramLoop(words, idx + 1, word_idx + 1,
                               NextFrac(words, word_idx + 1, frac_num),
                               train_words_pow, tab)
         ELSE UnigramLoop(words, idx + 1, word_idx, frac_num, train_words_pow, tab)

\* Vocabulary::init_unigram_table on a vocabulary with an entry: Some(the
\* vocabulary afterwards), None when it panics
init_unigram_table(v) ==
    LET t == UnigramLoop(v.words, 0, 0, WORD_POWER(v.words[1].count),
                         PowerSum(v.words), <<>>)
    IN IF t = None THEN None ELSE Some([v EXCEPT !.unigram_table = t[1]])

\* (a slip: the fallback draws from every word index, the sentinel's too)
sample_fallback_any(rand_seed, len) == (rand_seed % (2 ^ SeedBits)) % len

\* `rand_seed as usize % (self.words.len() - 1) + 1`, for len > 1
sample_fallback(rand_seed, len) == (((rand_seed % (2 ^ SeedBits)) % (len - 1))) + 1

\* Vocabulary::sample_random_word: the word index returned, whether it came
\* from the fallback, or a panic (remainder by zero).  `>>` on an i64 is
\* the arithmetic shift, `as usize` reduces modulo 2 ^ SeedBits.
sample_random_word(v, rand_seed) ==
    IF v.unigram_table = <<>> THEN [kind |-> "panic", target |-> 0, fallback |-> FALSE]
    ELSE
    LET idx == ((rand_seed \div (2 ^ RAND_SHIFT)) % (2 ^ SeedBits)) % Len(v.unigram_table)
        target == v.unigram_table[idx + 1]
    IN
    IF target # 0 THEN [kind |-> "ok", target |-> target, fallback |-> FALSE]
    ELSE IF Len(v.words) - 1 = 0 THEN [kind |-> "panic", target |-> 0, fallback |-> TRUE]
    ELSE [kind |-> "ok", target |-> sample_fallback(rand_seed, Len(v.words)),
          fallback |-> TRUE]

\* u8::is_ascii_whitespace
is_ascii_whitespace(byte) ==
    byte = SP \/ byte = TAB \/ byte = LF \/ byte = 12 \/ byte = CR

\* read_until(b'\n'): the length of the line at the head of bytes, its LF
\* included
RECURSIVE LineLen(_, _)
LineLen(bytes, i) ==
    IF i >= Len(bytes) THEN Len(bytes)
    ELSE IF bytes[i + 1] = LF THEN i + 1
    ELSE LineLen(bytes, i + 1)

\* index of the first whitespace of line at or after i, or Len(line)
RECURSIVE NextWhitespace(_, _)
NextWhitespace(line, i) ==
    IF i >= Len(line) THEN Len(line)
    ELSE IF is_ascii_whitespace(line[i + 1]) THEN i
    ELSE NextWhitespace(line, i + 1)

\* (parts.next(), parts.next()) of line.split(is_ascii_whitespace): the first
\* two parts, or None when the line has no whitespace and so a single part
FirstTwoParts(line) ==
    LET w1 == NextWhitespace(line, 0) IN
    IF w1 >= Len(line) THEN None
    ELSE Some(<<Slice(line, 0, w1), Slice(line, w1 + 1, NextWhitespace(line, w1 + 1))>>)

RECURSIVE Decimal(_)
Decimal(digits) ==
    IF digits = <<>> THEN 0
    ELSE 10 * Decimal(SubSeq(digits, 1, Len(digits) - 1)) + (digits[Len(digits)] - 48)

\* str::parse::<u32>: an optional '+', then one or more digits (the counts of
\* the model are single digits, far from u32::MAX, where parse fails too)
ParseU32(str) ==
    LET digits == IF str # <<>> /\ str[1] = 43 THEN Tail(str) ELSE str IN
    IF digits = <<>> \/ \E i \in 1 .. Len(digits) : digits[i] < 48 \/ digits[i] > 57
    THEN None
    ELSE Some(Decimal(digits))

\* The end of load_from_file, after its loop
LoadEnd(v) ==
    IF v.words = <<>>
    THEN [kind |-> "Err", msg |-> "Empty vocabulary", vocab |-> v]
    ELSE LET u == init_unigram_table(v) IN
         IF u = None THEN [kind |-> "panic", msg |-> "index out of bounds", vocab |-> v]
         ELSE [kind |-> "Ok", msg |-> "", vocab |-> u[1]]

\* The loop of load_from_file over the bytes still to read.  kind is "Ok",
\* "Err" (with the message of the error), "panic" (the assertion of
\* add_word_with_count) or "loops" (a probing loop that never ends).
RECURSIVE LoadLoop(_, _)
LoadLoop(bytes, v) ==
    IF bytes = <<>> THEN LoadEnd(v)
    ELSE
    LET n == LineLen(bytes, 0)
        parts == FirstTwoParts(SubSeq(bytes, 1, n))
    IN
    IF parts = None THEN LoadEnd(v)
    ELSE
    LET word == parts[1][1]
        count == parts[1][2]
    IN
    IF ~(Utf8Valid(word) /\ Utf8Valid(count))
    THEN [kind |-> "Err", msg |-> "Encountered invalid line", vocab |-> v]
    ELSE IF ParseU32(count) = None
    THEN [kind |-> "Err", msg |-> "Count is not a positive integer", vocab |-> v]
    ELSE IF word = <<>>
    THEN [kind |-> "Err", msg |-> "Word is empty", vocab |-> v]
    ELSE LET a == add_word_with_count(v, word, ParseU32(count)[1]) IN
         IF a.kind # "ok" THEN [kind |-> a.kind, msg |-> "", vocab |-> v]
         ELSE LoadLoop(SubSeq(bytes, n + 1, Len(bytes)), a.vocab)

\* Vocabulary::load_from_file
load_from_file(bytes) == LoadLoop(bytes, NewVocabulary)

----------------------------------------------------------------------------
(* The tokenizers as a state machine: an iterator made by new(file, offset) *)
(* is read token by token and may be reset; at a reset a second iterator is *)
(* made by new(file, offset) and from then on reads in step with the first, *)
(* every physical read returning the same bytes to both.                    *)

\* the iterator made by new(file, offset) on a file of the given bytes
TokStart(bytes) ==
    /\ corpus \in SeqsUpTo(bytes, MaxCorpusLen)
    /\ offset \in 0 .. Len(corpus)
    /\ it = NewIterator(offset)
    /\ out = <<>>
    /\ eosAt = -1
    /\ fresh = None
    /\ agree = TRUE
    /\ resetFrom = None
    /\ cb = None
    /\ mode = "tokenize"
    /\ vfile = <<>>
    /\ arg_min_count = 0
    /\ vocab = NewVocabulary
    /\ vphase = "start"
    /\ verr = ""
    /\ nextTok = 0
    /\ preSort = <<>>
    /\ ExtraIdle

TokInit == TokStart(CorpusBytes)

ResetInit == TokStart(ResetBytes)

ReadToken ==
    \E plan \in ReadPlans(IF fresh = None THEN it.pos ELSE Min(it.pos, fresh[1].pos)) :
        LET r == read_token(it, plan) IN
        /\ it' = r.it
        /\ out' = out \o r.res
        /\ eosAt' = IF eosAt = -1 /\ r.res = None THEN Len(out) ELSE eosAt
        /\ IF fresh # None
           THEN LET f == read_token(fresh[1], plan) IN
                /\ fresh' = Some(f.it)
                /\ agree' = (agree /\ r.res = f.res)
           ELSE UNCHANGED <<fresh, agree>>
        /\ UNCHANGED <<corpus, offset, resetFrom, cb, vocvars, extravars>>

Reset ==
    /\ \E off \in 0 .. Len(corpus) :
        /\ it' = ResetIterator(it, off)
        /\ offset' = off
        /\ fresh' = Some(NewIterator(off))
    /\ resetFrom' = Some([mid_buffer |-> it.start_pos # it.end_pos,
                          output_separator |-> it.output_separator,
                          eos |-> eosAt # -1])
    /\ out' = <<>>
    /\ eosAt' = -1
    /\ agree' = TRUE
    /\ UNCHANGED <<corpus, cb, vocvars, extravars>>

ReadFile ==
    /\ cb = None
    /\ \E plan \in ReadPlans(0) : cb' = Some(read_file_by_tokens(plan))
    /\ UNCHANGED <<corpus, it, offset, out, eosAt, fresh, agree, resetFrom, vocvars, extravars>>

\* the tokens returned before end-of-sequence was first signalled
Iterated == SubSeq(out, 1, eosAt)

TokNext == ReadToken \/ ReadFile

\* both tokenizers over every corpus, every start offset and every chunking
Spec == TokInit /\ [][TokNext]_vars

ResetNext == ReadToken \/ Reset

\* an iterator that is read and reset, beside the iterator new() makes
ResetSpec == ResetInit /\ [][ResetNext]_vars

----------------------------------------------------------------------------
(* Claims about the tokenizers                                             *)

IsContent(tok) == tok # SENTINEL

IsNonSeparator(byte) == ~is_token_separator(byte)

\* "W" for a run of content, "S" for a sentence boundary; neighbouring "W"
\* are one run
RECURSIVE Merge(_)
Merge(kinds) ==
    IF Len(kinds) <= 1 THEN kinds
    ELSE IF kinds[1] = "W" /\ kinds[2] = "W" THEN Merge(Tail(kinds))
    ELSE <<kinds[1]>> \o Merge(Tail(kinds))

IsBoundaryOrContent(byte) == byte = LF \/ ~is_token_separator(byte)

CorpusShape ==
    LET kept == SelectSeq(corpus, IsBoundaryOrContent)
    IN Merge([i \in 1 .. Len(kept) |-> IF kept[i] = LF THEN "S" ELSE "W"])

TokenShape(toks) ==
    Merge([i \in 1 .. Len(toks) |-> IF toks[i] = SENTINEL THEN "S" ELSE "W"])

\* C1: iterating a valid UTF-8 corpus from offset 0 to end-of-sequence, the
\* non-sentinel tokens concatenated are the corpus without its separator
\* bytes, whatever the sizes of the physical reads.
C1_ConcatIsContent ==
    (eosAt # -1 /\ offset = 0 /\ Utf8Valid(corpus))
        => Flatten(SelectSeq(Iterated, IsContent)) = SelectSeq(corpus, IsNonSeparator)

\* C2: iterating from offset 0 to end-of-sequence emits one sentinel per LF,
\* each at the place of its LF among the content tokens.
C2_SentinelPerLF ==
    (eosAt # -1 /\ offset = 0) => TokenShape(Iterated) = CorpusShape

\* C3: no token returned by read_token and no token passed to the callback
\* of read_file_by_tokens is empty.
C3_NoEmptyToken ==
    /\ \A i \in 1 .. Len(out) : Len(out[i]) >= 1
    /\ cb # None => \A i \in 1 .. Len(cb[1]) : Len(cb[1][i]) >= 1

\* both tokenizers have run over a corpus with two separators in a row
C3_Witness ==
    /\ eosAt # -1
    /\ cb # None
    /\ Len(out) >= 1
    /\ Len(cb[1]) >= 1
    /\ \E i \in 1 .. Len(corpus) - 1 :
          is_token_separator(corpus[i]) /\ is_token_separator(corpus[i + 1])

\* C4: every token read_token returns that was cut from the file is at most
\* MAX_TOKEN_LEN bytes long.
C4_TokenLenCapped ==
    \A i \in 1 .. Len(out) : out[i] \notin {SENTINEL, INV} => Len(out[i]) <= MAX_TOKEN_LEN

\* C5: after reset(offset), read_token returns what it returns for the
\* iterator new(file, offset) makes, call after call.
C5_ResetIsNew == fresh # None => agree

\* an iterator reset while a sentinel was pending and bytes were left in its
\* buffer has since been read to end-of-sequence
C5_Witness ==
    /\ fresh # None
    /\ resetFrom[1].output_separator
    /\ resetFrom[1].mid_buffer
    /\ eosAt >= 1
    /\ it.read_buffer # fresh[1].read_buffer

----------------------------------------------------------------------------
(* The vocabulary as a state machine: either learn_vocabulary_from_training *)
(* _file runs on a training file, one callback at a time, or load_from_file *)
(* runs on a vocabulary file.                                               *)

MaxPieces == 6
MaxLines == 3
MaxMinCount == 2

\* training files: "a ", "b ", "e" and "\n", up to MaxPieces of them in a row
CorpusPieces == {<<97, 32>>, <<98, 32>>, <<101>>, <<10>>}

\* lines of a vocabulary file: "</s> 3\n", "a 1\n", "b 2\n", "e 1\n", "f 1\n"
GoodLines ==
    { <<60, 47, 115, 62, 32, 51, 10>>, <<97, 32, 49, 10>>, <<98, 32, 50, 10>>,
      <<101, 32, 49, 10>>, <<102, 32, 49, 10>> }

\* "a\n", a word without a count; "a x\n", a count that is no number;
\* " 1\n", an empty word; "b", a word and nothing else, not even a line end
BadLines == { <<97, 10>>, <<97, 32, 120, 10>>, <<32, 49, 10>>, <<98>> }

\* vocabulary files: up to MaxLines lines in a row, good or bad, and up to a
\* hash table's worth of good lines in a row, none of them twice
VocabFiles ==
    {Flatten(lines) :
        lines \in SeqsUpTo(GoodLines \cup BadLines, MaxLines)
                  \cup {l \in SeqsUpTo(GoodLines, VOCAB_HASH_TABLE_SIZE) :
                            \A i, j \in 1 .. Len(l) : l[i] = l[j] => i = j}}

\* reads of k bytes each, k from 1 to the buffer size
SteadyPlans ==
    {[p \in 0 .. Len(corpus) - 1 |-> Min(k, Len(corpus) - p)] : k \in 1 .. READ_BUFFER_SIZE}

VocabStart ==
    /\ it = NewIterator(0)
    /\ offset = 0
    /\ out = <<>>
    /\ eosAt = -1
    /\ fresh = None
    /\ agree = TRUE
    /\ resetFrom = None
    /\ cb = None
    /\ arg_min_count = 0
    /\ vocab = NewVocabulary
    /\ vphase = "start"
    /\ verr = ""
    /\ nextTok = 0
    /\ preSort = <<>>
    /\ ExtraIdle

VocabInit ==
    /\ VocabStart
    /\ \/ /\ mode = "learn"
          /\ \E pieces \in SeqsUpTo(CorpusPieces, MaxPieces) : corpus = Flatten(pieces)
          /\ vfile = <<>>
       \/ /\ mode = "load"
          /\ vfile \in VocabFiles
          /\ corpus = <<>>

\* the byte string a callback of learn_vocabulary_from_training_file adds
word_str(word) == IF Utf8Valid(word) THEN word ELSE INV

\* learn_vocabulary_from_training_file up to its first callback on the file:
\* Vocabulary::new and word_callback(b"</s>")
LearnBegin ==
    /\ mode = "learn"
    /\ vphase = "start"
    /\ \E plan \in SteadyPlans : cb' = Some(read_file_by_tokens(plan))
    /\ vocab' = add_word(NewVocabulary, word_str(SENTINEL))[1]
    /\ vphase' = "scan"
    /\ nextTok' = 1
    /\ UNCHANGED <<corpus, it, offset, out, eosAt, fresh, agree, resetFrom,
                   mode, vfile, arg_min_count, verr, preSort, extravars>>

\* one call of word_callback by read_file_by_tokens
WordCallback ==
    /\ vphase = "scan"
    /\ nextTok <= Len(cb[1])
    /\ LET a == add_word(vocab, word_str(cb[1][nextTok])) IN
       IF a = None
       THEN vphase' = "loops" /\ vocab' = vocab
       ELSE vphase' = vphase /\ vocab' = a[1]
    /\ nextTok' = nextTok + 1
    /\ UNCHANGED <<tokvars, mode, vfile, arg_min_count, verr, preSort, extravars>>

\* the end of learn_vocabulary_from_training_file: sort_vocab, then
\* init_unigram_table, whose assertion fails on an empty vocabulary
LearnEnd ==
    /\ vphase = "scan"
    /\ nextTok > Len(cb[1])
    /\ preSort' = vocab.words
    /\ \E min_count \in 0 .. MaxMinCount :
        /\ arg_min_count' = min_count
        /\ \E v \in sort_vocab(vocab, min_count) :
            LET u == IF v.words = <<>> THEN None ELSE init_unigram_table(v) IN
            /\ vocab' = IF u = None THEN v ELSE u[1]
            /\ vphase' = IF u = None THEN "panic" ELSE "Ok"
    /\ UNCHANGED <<tokvars, mode, vfile, verr, nextTok, extravars>>

\* Vocabulary::load_from_file; an error returns no vocabulary
LoadFromFile ==
    /\ mode = "load"
    /\ vphase = "start"
    /\ LET r == load_from_file(vfile) IN
        /\ vphase' = r.kind
        /\ verr' = r.msg
        /\ vocab' = IF r.kind = "Ok" THEN r.vocab ELSE NewVocabulary
    /\ UNCHANGED <<tokvars, mode, vfile, arg_min_count, nextTok, preSort, extravars>>

VocabNext == LearnBegin \/ WordCallback \/ LearnEnd \/ LoadFromFile

VocabSpec == VocabInit /\ [][VocabNext]_vars

----------------------------------------------------------------------------
(* Claims about the vocabulary                                             *)

Learned == mode = "learn" /\ vphase = "Ok"

Loaded == mode = "load" /\ vphase = "Ok"

RECURSIVE SumCounts(_)
SumCounts(words) == IF words = <<>> THEN 0 ELSE Head(words).count + SumCounts(Tail(words))

\* the words that may be looked up: those of the files, and "x", in no file
LookupWords ==
    {SENTINEL, INV, <<97>>, <<98>>, <<101>>, <<102>>, <<101, 97>>, <<101, 98>>, <<120>>}

HasWord(words, word) == \E i \in 1 .. Len(words) : words[i].word = word

\* C6: the vocabulary learn_vocabulary_from_training_file returns has the
\* sentinel at word index 0.
C6_SentinelFirst == Learned => vocab.words[1].word = SENTINEL

\* a vocabulary returned after a pruning pass, with a sentinel counted
\* fewer than min_count times
C6_Witness ==
    /\ Learned
    /\ vocab.min_reduce >= 2
    /\ vocab.words[1].count < arg_min_count
    /\ Len(vocab.words) >= 2

\* C7: the hash index agrees with the entries: searching the word of entry
\* i returns i, no word has two entries, and searching a word that has no
\* entry returns -1.
C7_HashAgrees ==
    vphase \in {"scan", "Ok"} =>
        /\ \A i \in 1 .. Len(vocab.words) :
              search_word(vocab, vocab.words[i].word) = Some(i - 1)
        /\ \A i, j \in 1 .. Len(vocab.words) :
              vocab.words[i].word = vocab.words[j].word => i = j
        /\ \A w \in LookupWords :
              ~HasWord(vocab.words, w) => search_word(vocab, w) = Some(NOT_FOUND)

\* number of times word is passed to the callback on the training file
Occurrences(word) == Len(SelectSeq(cb[1], LAMBDA t : word_str(t) = word))

\* the occurrences in the training file of the words whose count at the end
\* of the scan is at least min_count
RECURSIVE QualifyingOccurrences(_)
QualifyingOccurrences(entries) ==
    IF entries = <<>> THEN 0
    ELSE (IF Head(entries).count >= arg_min_count THEN Occurrences(Head(entries).word) ELSE 0)
         + QualifyingOccurrences(Tail(entries))

\* C8: with no pruning pass, the counts of the retained entries add up to
\* train_words and to the number of occurrences in the training file,
\* sentinels included, of the words counted at least min_count times.
C8_CountsAreOccurrences ==
    (Learned /\ vocab.min_reduce = 1) =>
        /\ SumCounts(vocab.words) = vocab.train_words
        /\ SumCounts(vocab.words) = QualifyingOccurrences(preSort)

NonIncreasingAfterSentinel(words) ==
    \A i \in 2 .. Len(words) - 1 : words[i].count >= words[i + 1].count

QualifyingRetained ==
    \A i \in 1 .. Len(preSort) :
        preSort[i].count >= arg_min_count
            => \E j \in 1 .. Len(vocab.words) : vocab.words[j] = preSort[i]

\* C9 as claimed: after learning, the entries after the sentinel are in
\* non-increasing count order, every retained entry has count >= min_count,
\* and every word with count >= min_count is retained.
C9_AllEntriesFrequent ==
    Learned =>
        /\ NonIncreasingAfterSentinel(vocab.words)
        /\ \A i \in 1 .. Len(vocab.words) : vocab.words[i].count >= arg_min_count
        /\ QualifyingRetained

\* C9 amended: ... every retained entry other than the sentinel at index 0
\* has count >= min_count ...
C9_EntriesAfterSentinelFrequent ==
    Learned =>
        /\ NonIncreasingAfterSentinel(vocab.words)
        /\ \A i \in 2 .. Len(vocab.words) : vocab.words[i].count >= arg_min_count
        /\ QualifyingRetained

\* a returned vocabulary that sorting reordered and truncated, whose
\* sentinel is below min_count
C9_Witness ==
    /\ Learned
    /\ vocab.words[1].count < arg_min_count
    /\ Len(vocab.words) >= 2
    /\ Len(preSort) > Len(vocab.words)
    /\ preSort # SubSeq(preSort, 1, 1) \o SortByCount(Tail(preSort))
    /\ \E i \in 2 .. Len(vocab.words) : vocab.words[i].count = arg_min_count

\* the lines of a file: what ends with each LF, and what follows the last
RECURSIVE LinesOf(_)
LinesOf(bytes) ==
    IF bytes = <<>> THEN <<>>
    ELSE LET n == LineLen(bytes, 0)
             line == IF bytes[n] = LF THEN SubSeq(bytes, 1, n - 1) ELSE SubSeq(bytes, 1, n)
         IN <<line>> \o LinesOf(SubSeq(bytes, n + 1, Len(bytes)))

\* the whitespace-separated fields of a line
RECURSIVE FieldsOf(_)
FieldsOf(line) ==
    IF line = <<>> THEN <<>>
    ELSE IF is_ascii_whitespace(line[1]) THEN FieldsOf(Tail(line))
    ELSE LET w == NextWhitespace(line, 0)
         IN <<SubSeq(line, 1, w)>> \o FieldsOf(SubSeq(line, w + 1, Len(line)))

IsNumber(field) == field # <<>> /\ \A i \in 1 .. Len(field) : field[i] \in 48 .. 57

\* a line with fewer than two fields, a count that is no number, or an
\* empty word
MalformedLine(line) ==
    \/ Len(FieldsOf(line)) < 2
    \/ ~IsNumber(FieldsOf(line)[2])
    \/ is_ascii_whitespace(line[1])

MalformedFile(bytes) ==
    \/ bytes = <<>>
    \/ \E i \in 1 .. Len(LinesOf(bytes)) : MalformedLine(LinesOf(bytes)[i])

\* C10: on a file with a malformed line, a count that is no number, an empty
\* word, or no entry, load_from_file returns an error, never a vocabulary.
C10_MalformedIsError ==
    (mode = "load" /\ vphase \in {"Ok", "Err"} /\ MalformedFile(vfile)) => vphase = "Err"

----------------------------------------------------------------------------
(* Saving a learned vocabulary and loading it again                        *)

MaxSavedPieces == 4

\* training files: "a ", "b ", "\n", and words with a form feed in them,
\* "a\x0C1 " and "e\x0Cb ": the form feed is no separator of the tokenizer
SavedPieces == {<<97, 32>>, <<98, 32>>, <<10>>, <<97, 12, 49, 32>>, <<101, 12, 98, 32>>}

\* the decimal digits `{}` writes for a u32
RECURSIVE Digits(_)
Digits(n) == IF n < 10 THEN <<48 + n>> ELSE Digits(n \div 10) \o <<48 + (n % 10)>>

\* the loop of save_to_file: writeln!("{} {}", w.word, w.count) for each entry
RECURSIVE SaveLines(_)
SaveLines(words) ==
    IF words = <<>> THEN <<>>
    ELSE Head(words).word \o <<SP>> \o Digits(Head(words).count) \o <<LF>>
         \o SaveLines(Tail(words))

\* Vocabulary::save_to_file: the bytes of the file it writes
save_to_file(v) == SaveLines(v.words)

RoundTripInit ==
    /\ VocabStart
    /\ mode = "learn"
    /\ \E pieces \in SeqsUpTo(SavedPieces, MaxSavedPieces) : corpus = Flatten(pieces)
    /\ vfile = <<>>

\* vocab.save_to_file(&params.save_vocab_file) on the vocabulary learned
SaveToFile ==
    /\ mode = "learn"
    /\ vphase = "Ok"
    /\ vfile = <<>>
    /\ vfile' = save_to_file(vocab)
    /\ UNCHANGED <<tokvars, mode, arg_min_count, vocab, vphase, verr, nextTok,
                   preSort, extravars>>

\* Vocabulary::load_from_file on the file save_to_file wrote
LoadSaved ==
    /\ mode = "learn"
    /\ vfile # <<>>
    /\ reloaded = None
    /\ reloaded' = Some(load_from_file(vfile))
    /\ UNCHANGED <<tokvars, vocvars, smvars, trainvars>>

RoundTripNext == LearnBegin \/ WordCallback \/ LearnEnd \/ SaveToFile \/ LoadSaved

RoundTripSpec == RoundTripInit /\ [][RoundTripNext]_vars

\* C11: a learned vocabulary that is saved and loaded again is loaded without
\* an error, and search_word finds every saved word at the same word index in
\* the loaded vocabulary as in the saved one.
C11_RoundTrip ==
    reloaded # None =>
        /\ reloaded[1].kind = "Ok"
        /\ \A i \in 1 .. Len(vocab.words) :
              search_word(reloaded[1].vocab, vocab.words[i].word)
                  = search_word(vocab, vocab.words[i].word)

\* C12: every vocabulary load_from_file returns has the sentinel at word
\* index 0, the index the trainer and sample_random_word take for it.
C12_LoadedSentinelFirst == Loaded => vocab.words[1].word = SENTINEL

----------------------------------------------------------------------------
(* Sampling a word of a learned vocabulary                                 *)

MaxSamplePieces == 4

\* every i64 of the model's width
Seeds == -(2 ^ (SeedBits - 1)) .. 2 ^ (SeedBits - 1) - 1

SampleInit ==
    /\ VocabStart
    /\ mode = "learn"
    /\ \E pieces \in SeqsUpTo(CorpusPieces, MaxSamplePieces) : corpus = Flatten(pieces)
    /\ vfile = <<>>

\* vocab.sample_random_word(rand_seed) on the vocabulary learned
SampleRandomWord ==
    /\ vphase = "Ok"
    /\ sampled = None
    /\ \E rand_seed \in Seeds :
        LET r == sample_random_word(vocab, rand_seed) IN
        sampled' = Some([negative |-> rand_seed < 0, kind |-> r.kind,
                         target |-> r.target, fallback |-> r.fallback])
    /\ UNCHANGED <<tokvars, vocvars, rtvars, trainvars>>

SampleNext == LearnBegin \/ WordCallback \/ LearnEnd \/ SampleRandomWord

SampleSpec == SampleInit /\ [][SampleNext]_vars

\* C13 as stated: on every vocabulary with a built unigram table, the
\* sentinel alone included, sample_random_word returns a word index from 1 to
\* vocab_size - 1, and does not panic.
C13_SampleNeverSentinel ==
    sampled # None =>
        /\ sampled[1].kind = "ok"
        /\ sampled[1].target \in 1 .. Len(vocab.words) - 1

\* C13 amended: on a vocabulary of two entries or more sample_random_word
\* returns a word index from 1 to vocab_size - 1; on a vocabulary whose only
\* entry is the sentinel there is no such index and it panics.
C13_SampleOfTwoOrMore ==
    sampled # None =>
        IF Len(vocab.words) >= 2
        THEN /\ sampled[1].kind = "ok"
             /\ sampled[1].target \in 1 .. Len(vocab.words) - 1
        ELSE sampled[1].kind = "panic"

\* a negative seed fell on a slot of the sentinel and the fallback drew a word
\* of a vocabulary of three
C13_Witness ==
    /\ sampled # None
    /\ sampled[1].negative
    /\ sampled[1].fallback
    /\ sampled[1].kind = "ok"
    /\ Len(vocab.words) >= 3
    /\ sampled[1].target = 2

----------------------------------------------------------------------------
(* src/src/nnet.rs: numbers                                                *)
(*                                                                         *)
(* An f32 is a whole number of units of 2 ^ -INIT_BITS, or NaN.  The       *)
(* learning rate of the model is 0.0, so that every product with it is     *)
(* exactly 0 or NaN and the rows of the matrices are exact.                *)

\* the low 16 bits of the multiplier 25214903917 of LcRandomGen; the model
\* keeps the low SeedBits bits of every product
LC_MULTIPLIER == 58989

\* the bits of a random number NeuralNet::new keeps (`& 0xffff`; 16 in the
\* source, scaled with the width)
INIT_BITS == 2

\* f64::exp(f) is infinite for f above ln(f64::MAX), about 709.78 (scaled
\* down, in squared units)
EXP_OVERFLOW == 1

F(v) == [nan |-> FALSE, v |-> v]

NaN == [nan |-> TRUE, v |-> 0]

FAdd(x, y) == IF x.nan \/ y.nan THEN NaN ELSE F(x.v + y.v)

FMul(x, y) == IF x.nan \/ y.nan THEN NaN ELSE F(x.v * y.v)

\* x / n for a count n > 0, rounded towards zero
FDiv(x, n) ==
    IF x.nan THEN NaN
    ELSE IF x.v >= 0 THEN F(x.v \div n) ELSE F(-((-x.v) \div n))

\* `x as usize` and `x as i64` at the width of the model
AsUsize(x) == x % (2 ^ SeedBits)

AsI64(x) == IF AsUsize(x) >= 2 ^ (SeedBits - 1) THEN AsUsize(x) - (2 ^ SeedBits) ELSE AsUsize(x)

\* LcRandomGen::next_rand: the state afterwards, which is the number returned
next_rand(state) == AsI64(state * LC_MULTIPLIER + 11)

\* dot_product of two vectors of the same length
RECURSIVE dot_product(_, _)
dot_product(vec1, vec2) ==
    IF vec1 = <<>> THEN F(0)
    ELSE FAdd(FMul(vec1[Len(vec1)], vec2[Len(vec1)]),
              dot_product(SubSeq(vec1, 1, Len(vec1) - 1), vec2))

\* expx / (expx + 1.0) for expx = f64::exp(f): NaN when expx is infinite
OutputIsNaN(f) == f.nan \/ f.v > EXP_OVERFLOW

\* err = (label - output as f32) * alpha, for alpha = 0.0
OutputError(f) == IF OutputIsNaN(f) THEN NaN ELSE F(0)

\* the vector v + x * w, element by element
VecAddScaled(v, x, w) == [i \in 1 .. Len(v) |-> FAdd(v[i], FMul(x, w[i]))]

VecAdd(v, w) == [i \in 1 .. Len(v) |-> FAdd(v[i], w[i])]

VecDiv(v, n) == [i \in 1 .. Len(v) |-> FDiv(v[i], n)]

Zeros(n) == [i \in 1 .. n |-> F(0)]

HasNaN(v) == \E i \in 1 .. Len(v) : v[i].nan

----------------------------------------------------------------------------
(* src/src/nnet.rs: NeuralNet                                              *)

\* the value rand_gen gives the next element of syn0, from the number drawn
InitValue(r, layer1_size) ==
    FDiv(F((AsUsize(r) % (2 ^ INIT_BITS)) - (2 ^ (INIT_BITS - 1))), layer1_size)

\* resize_with(size, rand_gen): the n elements drawn from the generator
RECURSIVE InitValues(_, _, _)
InitValues(state, n, layer1_size) ==
    IF n = 0 THEN <<>>
    ELSE LET r == next_rand(state) IN
         <<InitValue(r, layer1_size)>> \o InitValues(r, n - 1, layer1_size)

\* NeuralNet::new, without its locker
NewNeuralNet(vocab_size, layer1_size) ==
    [ vocab_size |-> vocab_size,
      layer1_size |-> layer1_size,
      syn0 |-> InitValues(1, vocab_size * layer1_size, layer1_size),
      syn1neg |-> Zeros(vocab_size * layer1_size) ]

\* the row of a word in a matrix: m[idx * layer1_size .. (idx + 1) * layer1_size]
Row(m, idx, layer1_size) == SubSeq(m, idx * layer1_size + 1, (idx + 1) * layer1_size)

----------------------------------------------------------------------------
(* mem_block_lock: MemBlockLocker, a lock for each stripe of keys          *)

STRIPE_COUNT == 2

Stripe(key) == key % STRIPE_COUNT

\* MemBlockLocker::new: no stripe is held (-1), else the thread_id of the holder
NewLocker == [s \in 0 .. STRIPE_COUNT - 1 |-> -1]

\* lock(key) returns only when the stripe of the key is free
CanLock(lk, key) == lk[Stripe(key)] = -1

AfterLock(lk, key, thread_id) == [lk EXCEPT ![Stripe(key)] = thread_id]

AfterUnlock(lk, key) == [lk EXCEPT ![Stripe(key)] = -1]

----------------------------------------------------------------------------
(* src/src/nnet.rs: train_model_thread, one worker thread                  *)

\* MAX_SENTENCE_LENGTH (1024 in the source)
MAX_SENTENCE_LENGTH == 2

\* the words between two progress updates (10000 in the source)
PROGRESS_STEP == 1

\* physical reads that fill the buffer, and a read that fails: unwrap_or(0)
\* makes its size 0
FullReads == [p \in 0 .. Len(corpus) - 1 |-> Min(READ_BUFFER_SIZE, Len(corpus) - p)]

FailedRead == [p \in 0 .. Len(corpus) - 1 |-> 0]

\* whether an I/O operation may fail now
Failures == IF io.faults > 0 THEN BOOLEAN ELSE {FALSE}

AfterFailure(thread_id, op, fail) ==
    IF fail
    THEN [faults |-> io.faults - 1, failed |-> io.failed \cup {<<thread_id, op>>}]
    ELSE io

\* (a slip: the back-propagation into the context rows takes no lock)
TakesLockOutputOnly(site) == site = "out"

\* both row updates are made between lock and unlock (lines 377-381 for the
\* site "out", 423-427 for the site "in")
TakesLock(site) == TRUE

\* the locals of a thread that main has spawned and that has not run yet;
\* alpha_wc is the value of the shared counter alpha was last computed from
\* (-1: alpha is starting_alpha), counted is how often the thread has
\* executed `word_count += 1`
NewWorker ==
    [ pc |-> "start", fi |-> NewIterator(0), offset |-> 0, eof_reached |-> FALSE,
      word_count |-> 0, last_word_count |-> 0,
      sentence |-> <<>>, sentence_position |-> 0, local_iter |-> 0, rand |-> 0,
      neu1 |-> <<>>, neu1e |-> <<>>, cw |-> 0, b |-> 0, a |-> 0, d |-> 0,
      label |-> 0, alpha_wc |-> -1, counted |-> 0,
      site |-> "", key |-> 0, tmp |-> <<>>, holds |-> -1, hidx |-> 0, epochs |-> 0 ]

Threads == DOMAIN wk

Exited(w) == wk[w].pc \in {"done", "err", "panic"}

\* the assertions at the start of train_model_thread
SizesAgree ==
    /\ net.vocab_size = Len(vocab.words)
    /\ net.vocab_size * net.layer1_size = Len(net.syn0)
    /\ Len(net.syn0) = Len(net.syn1neg)

\* what a worker action leaves alone apart from wk and the variables named
WorkerFrame == <<tokvars, vocvars, rtvars, smvars, params, tmain, prev>>

\* lines 153-177: the assertions, FileTokenIterator::new at the offset of
\* the thread, and the locals
SeekOffset(w) ==
    /\ wk[w].pc = "start"
    /\ \E fail \in Failures :
        LET off == (params.training_file_size \div params.num_threads) * w IN
        /\ io' = AfterFailure(w, "open", SizesAgree /\ fail)
        /\ wk' = [wk EXCEPT ![w] =
                    IF ~SizesAgree THEN [@ EXCEPT !.pc = "panic"]
                    ELSE IF fail THEN [@ EXCEPT !.pc = "err", !.offset = off]
                    ELSE [@ EXCEPT !.pc = "loop",
                                   !.offset = off,
                                   !.fi = NewIterator(off),
                                   !.neu1 = Zeros(net.layer1_size),
                                   !.neu1e = Zeros(net.layer1_size),
                                   !.rand = w,
                                   !.local_iter = params.total_iter]]
    /\ UNCHANGED <<WorkerFrame, net, locks, word_count_actual, ghost>>

\* (a slip: the progress update is made in every turn of the loop)
FlushAlways(l) == TRUE

\* the test of line 182
FlushDue(l) == l.word_count - l.last_word_count > PROGRESS_STEP

\* lines 182-215: the progress update (alpha is computed from the counter
\* and stays starting_alpha * x = 0.0) and the test `sentence_length == 0`
LoopTop(w) ==
    /\ wk[w].pc = "loop"
    /\ LET diff == wk[w].word_count - wk[w].last_word_count
           next == IF wk[w].sentence = <<>> THEN "fill" ELSE "check" IN
       IF FlushDue(wk[w])
       THEN /\ word_count_actual' = word_count_actual + diff
            /\ wk' = [wk EXCEPT ![w] = [@ EXCEPT !.last_word_count = @ + diff,
                                                  !.alpha_wc = word_count_actual + diff,
                                                  !.pc = next]]
       ELSE /\ word_count_actual' = word_count_actual
            /\ wk' = [wk EXCEPT ![w] = [@ EXCEPT !.pc = next]]
    /\ UNCHANGED <<WorkerFrame, net, locks, io, ghost>>

\* (a slip: the index -1 of an unknown word is not tested for)
OutOfVocabularyAbove(idx) == idx >= net.vocab_size

\* lines 218-219: the indices the loop that fills the sentence passes over
OutOfVocabulary(idx) == idx < 0 \/ idx >= net.vocab_size

\* lines 217-243: one turn of the loop that fills the sentence, from the
\* result of search_word on
AfterWordIndex(l, idx) ==
    IF OutOfVocabulary(idx) THEN l
    ELSE LET l1 == [l EXCEPT !.word_count = @ + 1, !.counted = @ + 1] IN
         IF idx = 0
         THEN IF l.sentence = <<>> THEN l1 ELSE [l1 EXCEPT !.pc = "check"]
         ELSE LET l2 == [l1 EXCEPT !.sentence = Append(@, idx)] IN
              IF Len(l2.sentence) > MAX_SENTENCE_LENGTH
              THEN [l2 EXCEPT !.pc = "check"]
              ELSE [l2 EXCEPT !.sentence_position = 0]

\* read_word_index in the loop that fills the sentence: read_token, then
\* search_word, which may never return
ReadWordWith(w, plans) ==
    /\ wk[w].pc = "fill"
    /\ \E fail \in Failures :
       \E good \in {read_token(wk[w].fi, plan) : plan \in plans} :
       \E r \in {IF fail THEN read_token(wk[w].fi, FailedRead) ELSE good} :
       \E l \in {[wk[w] EXCEPT !.fi = r.it]} :
        /\ fail => r # good
        /\ io' = AfterFailure(w, "read", fail)
        /\ wk' = [wk EXCEPT ![w] =
                    IF r.res = None
                    THEN [l EXCEPT !.eof_reached = TRUE, !.pc = "check"]
                    ELSE LET s == search_word(vocab, r.res[1]) IN
                         IF s = None
                         THEN [l EXCEPT !.pc = "searching",
                                        !.hidx = get_word_hash_index(r.res[1])]
                         ELSE AfterWordIndex(l, s[1])]
    /\ UNCHANGED <<WorkerFrame, net, locks, word_count_actual, ghost>>

\* ... when every read of the training file fills the buffer
ReadWord(w) == ReadWordWith(w, {FullReads})

\* ... when a read may return any number of bytes
ReadWordShort(w) == ReadWordWith(w, SteadyPlans)

\* the probing loop of search_word in a table with no empty slot
SearchSpin(w) ==
    /\ wk[w].pc = "searching"
    /\ wk' = [wk EXCEPT ![w] = [@ EXCEPT !.hidx = NextSlot(@)]]
    /\ UNCHANGED <<WorkerFrame, net, locks, word_count_actual, io, ghost>>

\* (a slip: an epoch ends at the end of the file only)
EpochEndsAtEof(l) == l.sentence = <<>> /\ l.eof_reached

\* the test of line 247
EpochEnds(l) ==
    \/ l.sentence = <<>> /\ l.eof_reached
    \/ l.word_count > vocab.train_words \div params.num_threads

\* the width of local_iter and total_iter (64 in the source)
ITER_BITS == 2

\* `local_iter -= 1` on an unsigned counter: what it leaves in local_iter.
\* At 0 a build with overflow checks panics (None) and a build without
\* them wraps round.
Decremented(local_iter) ==
    IF local_iter >= 1 THEN {Some(local_iter - 1)}
    ELSE {None, Some(2 ^ ITER_BITS - 1)}

\* lines 250-260
EndOfEpoch(w) ==
    /\ wk[w].pc = "check"
    /\ EpochEnds(wk[w])
    /\ \E dec \in Decremented(wk[w].local_iter) :
       IF dec = None
       THEN /\ wk' = [wk EXCEPT ![w] = [@ EXCEPT !.pc = "panic"]]
            /\ io' = io
       ELSE
       LET l == [wk[w] EXCEPT !.local_iter = dec[1], !.epochs = @ + 1] IN
       IF l.local_iter = 0
       THEN /\ wk' = [wk EXCEPT ![w] = [l EXCEPT !.pc = "done"]]
            /\ io' = io
       ELSE \E fail \in Failures :
            LET l1 == [l EXCEPT !.word_count = 0, !.last_word_count = 0,
                                !.sentence = <<>>] IN
            /\ io' = AfterFailure(w, "seek", fail)
            /\ wk' = [wk EXCEPT ![w] =
                        IF fail THEN [l1 EXCEPT !.pc = "err"]
                        ELSE [l1 EXCEPT !.fi = ResetIterator(@, l.offset),
                                        !.eof_reached = FALSE,
                                        !.pc = "loop"]]
    /\ UNCHANGED <<WorkerFrame, net, locks, word_count_actual, ghost>>

\* lines 263-270: the word at sentence_position and the window drawn for it
\* (`% params.window` panics when the window is 0)
BeginWord(w) ==
    /\ wk[w].pc = "check"
    /\ ~EpochEnds(wk[w])
    /\ LET r == next_rand(wk[w].rand) IN
       wk' = [wk EXCEPT ![w] =
                IF params.window = 0
                THEN [@ EXCEPT !.rand = r, !.pc = "panic"]
                ELSE
                [@ EXCEPT !.neu1 = Zeros(net.layer1_size),
                          !.cw = 0,
                          !.rand = r,
                          !.b = AsUsize(r) % params.window,
                          !.a = AsUsize(r) % params.window,
                          !.pc = "context"]]
    /\ UNCHANGED <<WorkerFrame, net, locks, word_count_actual, io, ghost>>

\* (a slip: the last turn of the loop is left out)
WindowEndShort(l) == params.window * 2 - l.b

\* the bound of `for a in b..params.window * 2 + 1 - b`
WindowEnd(l) == params.window * 2 + 1 - l.b

\* c, and whether the turn for a is skipped (lines 273-279 and 394-404)
ContextIndex(l) == l.sentence_position - params.window + l.a

SkipsContext(l) ==
    \/ l.a = params.window
    \/ ContextIndex(l) < 0
    \/ ContextIndex(l) >= Len(l.sentence)

\* lines 433-440; the locals that are dead afterwards are given the values
\* they had at first
Advance(l) ==
    LET l1 == [l EXCEPT !.sentence_position = @ + 1] IN
    [l1 EXCEPT !.sentence = IF l1.sentence_position >= Len(@) THEN <<>> ELSE @,
               !.cw = 0, !.b = 0, !.a = 0, !.d = 0, !.label = 0, !.site = "",
               !.key = 0,
               !.tmp = <<>>,
               !.neu1 = Zeros(net.layer1_size),
               !.neu1e = Zeros(net.layer1_size),
               !.pc = "loop"]

\* lines 272-303: one turn of the loop that sums the context rows of syn0,
\* read without a lock, or its end
ReadContext(w) ==
    /\ wk[w].pc = "context"
    /\ LET l == wk[w] IN
       wk' = [wk EXCEPT ![w] =
                IF l.a >= WindowEnd(l)
                THEN IF l.cw > 0
                     THEN [l EXCEPT !.neu1e = Zeros(net.layer1_size),
                                    !.neu1 = VecDiv(@, l.cw),
                                    !.d = 0,
                                    !.pc = "sample"]
                     ELSE Advance(l)
                ELSE IF SkipsContext(l) THEN [l EXCEPT !.a = @ + 1]
                ELSE LET last_word == l.sentence[ContextIndex(l) + 1] IN
                     [l EXCEPT !.neu1 = VecAdd(@, Row(net.syn0, last_word, net.layer1_size)),
                               !.cw = @ + 1,
                               !.a = @ + 1]]
    /\ UNCHANGED <<WorkerFrame, net, locks, word_count_actual, io, ghost>>

\* (a slip: a sampled target is not compared with the word trained on)
SkipsTargetOutOfRange(target, word) == OutOfVocabulary(target)

\* lines 325-331: the sampled targets that are passed over
SkipsTarget(target, word) == target = word \/ target < 0 \/ target >= net.vocab_size

\* lines 311-367: the target of one turn of the negative-sampling loop, the
\* output for it from its row of syn1neg, read without a lock, and the
\* gradient; or the end of the loop
NextPair(w) ==
    /\ wk[w].pc = "sample"
    /\ LET l == wk[w]
           word == l.sentence[l.sentence_position + 1]
           r == next_rand(l.rand)
           s == sample_random_word(vocab, r)
           target == IF l.d = 0 THEN word ELSE s.target
           row == Row(net.syn1neg, target, net.layer1_size)
           err == OutputError(dot_product(l.neu1, row))
       IN
       wk' = [wk EXCEPT ![w] =
                IF l.d >= params.negative_samples + 1
                THEN [l EXCEPT !.a = l.b, !.pc = "backprop"]
                ELSE IF l.d = 0
                THEN [l EXCEPT !.neu1e = VecAddScaled(@, err, row),
                               !.label = 1,
                               !.site = "out", !.key = target, !.pc = "lock"]
                ELSE IF s.kind = "panic"
                THEN [l EXCEPT !.rand = r, !.pc = "panic"]
                ELSE IF SkipsTarget(target, word)
                THEN [l EXCEPT !.rand = r, !.d = @ + 1]
                ELSE [l EXCEPT !.rand = r,
                               !.neu1e = VecAddScaled(@, err, row),
                               !.label = 0,
                               !.site = "out", !.key = target, !.pc = "lock"]]
    /\ UNCHANGED <<WorkerFrame, net, locks, word_count_actual, io, ghost>>

\* lines 393-422: one turn of the loop over the context rows, up to the
\* lock of the row of last_word; or its end
NextContext(w) ==
    /\ wk[w].pc = "backprop"
    /\ LET l == wk[w] IN
       wk' = [wk EXCEPT ![w] =
                IF l.a >= WindowEnd(l) THEN Advance(l)
                ELSE IF SkipsContext(l) THEN [l EXCEPT !.a = @ + 1]
                ELSE [l EXCEPT !.site = "in",
                               !.key = l.sentence[ContextIndex(l) + 1],
                               !.pc = "lock"]]
    /\ UNCHANGED <<WorkerFrame, net, locks, word_count_actual, io, ghost>>

\* the matrix a site updates, and the vector it adds to the row
MatrixOf(site) == IF site = "out" THEN "syn1neg" ELSE "syn0"

Increment(l) == IF l.site = "out" THEN l.neu1 ELSE l.neu1e

\* lines 377 and 423: lock(key), and the read of the row that `+=` starts with
LockRow(w) ==
    /\ wk[w].pc = "lock"
    /\ LET l == wk[w] IN
        /\ TakesLock(l.site) => CanLock(locks, l.key)
        /\ locks' = IF TakesLock(l.site) THEN AfterLock(locks, l.key, w) ELSE locks
        /\ wk' = [wk EXCEPT ![w] =
                    [l EXCEPT !.holds = IF TakesLock(l.site) THEN l.key ELSE -1,
                              !.tmp = Row(net[MatrixOf(l.site)], l.key, net.layer1_size),
                              !.pc = "rmw"]]
    /\ UNCHANGED <<WorkerFrame, net, word_count_actual, io, ghost>>

\* (a slip: unlock is given the next key)
UnlockKeyNext(l) == l.key + 1

\* the key given to unlock: `target as usize` at line 381, last_word at 427
UnlockKey(l) == l.key

\* a matrix with the row of a word replaced
WithRow(m, idx, layer1_size, row) ==
    [i \in 1 .. Len(m) |->
        IF i > idx * layer1_size /\ i <= (idx + 1) * layer1_size
        THEN row[i - idx * layer1_size]
        ELSE m[i]]

\* lines 378-381 and 424-427: the write of the row that `+=` ends with, and
\* unlock(key)
UnlockRow(w) ==
    /\ wk[w].pc = "rmw"
    /\ LET l == wk[w]
           mx == MatrixOf(l.site)
           L == net.layer1_size
       IN
        /\ net' = [net EXCEPT ![mx] = WithRow(@, l.key, L, VecAdd(l.tmp, Increment(l)))]
        /\ ghost' = [ghost EXCEPT ![mx] =
                        WithRow(@, l.key, L, VecAdd(Row(@, l.key, L), Increment(l)))]
        /\ locks' = IF TakesLock(l.site) THEN AfterUnlock(locks, UnlockKey(l)) ELSE locks
        /\ wk' = [wk EXCEPT ![w] =
                    LET l1 == [l EXCEPT !.holds = IF TakesLock(l.site) /\ UnlockKey(l) = @
                                                  THEN -1 ELSE @,
                                        !.tmp = <<>>] IN
                    IF l.site = "out"
                    THEN [l1 EXCEPT !.d = @ + 1, !.pc = "sample"]
                    ELSE [l1 EXCEPT !.a = @ + 1, !.pc = "backprop"]]
    /\ UNCHANGED <<WorkerFrame, word_count_actual, io>>

\* a step of one worker that is not a read of the training file
Compute(w) ==
    \/ SeekOffset(w)
    \/ LoopTop(w)
    \/ EndOfEpoch(w)
    \/ BeginWord(w)
    \/ ReadContext(w)
    \/ NextPair(w)
    \/ NextContext(w)
    \/ LockRow(w)
    \/ UnlockRow(w)

\* a step of one worker
Worker(w) == ReadWord(w) \/ Compute(w)

----------------------------------------------------------------------------
(* src/src/main.rs: train                                                  *)

MaxFaults == 1

\* training files: none of the text, "b ", "a a a \n", "aaaa b b \n" (whose
\* first word is longer than MAX_TOKEN_LEN), "a a \na a \n", "a b \nb a \n"
TrainCorpora ==
    { <<>>,
      <<98, 32>>,
      <<97, 32, 97, 32, 97, 32, 10>>,
      <<97, 97, 97, 97, 32, 98, 32, 98, 32, 10>>,
      <<97, 32, 97, 32, 10, 97, 32, 97, 32, 10>>,
      <<97, 32, 98, 32, 10, 98, 32, 97, 32, 10>> }

\* num_threads, total_iter, negative_samples, window and vectors_size of the
\* runs looked at; starting_alpha is 0.0 in all of them
TrainConfigs ==
    [ num_threads : {1}, total_iter : {1, 2}, negative_samples : {0, 1},
      window : {1}, vectors_size : {1} ]
    \cup [ num_threads : {2}, total_iter : {1}, negative_samples : {0, 1},
           window : {1}, vectors_size : {1} ]

\* the min_count of the runs looked at
TrainMinCounts == {1}

\* the loop of word_callback over the tokens of the training file, for each
\* of the vocabularies vs; None when a probing loop never ends
RECURSIVE AddWords(_, _)
AddWords(vs, toks) ==
    IF toks = <<>> THEN vs
    ELSE AddWords({IF o = None THEN None ELSE add_word(o[1], word_str(Head(toks))) : o \in vs},
                  Tail(toks))

\* learn_vocabulary_from_training_file: the vocabularies it may return
learn_vocabulary_from_training_file(min_count) ==
    LET scanned == UNION {AddWords({Some(NewVocabulary)}, <<SENTINEL>> \o toks) :
                            toks \in {read_file_by_tokens(plan) : plan \in SteadyPlans}}
        sorted == UNION {sort_vocab(a[1], min_count) : a \in scanned \ {None}}
        tabled == {init_unigram_table(v) : v \in {x \in sorted : x.words # <<>>}}
    IN {u[1] : u \in tabled \ {None}}

\* train, called with a training file and no vocabulary file
TrainInit ==
    /\ it = NewIterator(0)
    /\ offset = 0
    /\ out = <<>>
    /\ eosAt = -1
    /\ fresh = None
    /\ agree = TRUE
    /\ resetFrom = None
    /\ cb = None
    /\ nextTok = 0
    /\ preSort = <<>>
    /\ verr = ""
    /\ vfile = <<>>
    /\ mode = "learn"
    /\ vphase = "start"
    /\ vocab = NewVocabulary
    /\ corpus \in TrainCorpora
    /\ arg_min_count \in TrainMinCounts
    /\ ExtraIdle

\* line 27: learn_vocabulary_from_training_file; its assertion fails when no
\* vocabulary is left
LearnVocabulary ==
    /\ mode = "learn"
    /\ vphase = "start"
    /\ LET vs == learn_vocabulary_from_training_file(arg_min_count) IN
       IF vs = {}
       THEN vphase' = "panic" /\ vocab' = vocab
       ELSE vphase' = "Ok" /\ vocab' \in vs
    /\ UNCHANGED <<tokvars, mode, vfile, arg_min_count, verr, nextTok, preSort, extravars>>

\* lines 43-46: no output file, no training
SkipTraining ==
    /\ tmain.pc = "idle"
    /\ vphase = "Ok"
    /\ tmain' = [tmain EXCEPT !.pc = "returned", !.result = "Ok"]
    /\ UNCHANGED <<tokvars, vocvars, rtvars, smvars, params, net, locks, wk,
                   word_count_actual, io, ghost, prev>>

\* lines 48-65 up to the end of the closure of thread::scope: NeuralNet::new
\* and the threads spawned, for one of the configurations cfgs; `faults` I/O
\* operations may fail from here on
SpawnWith(cfgs, faults) ==
    /\ tmain.pc = "idle"
    /\ vphase = "Ok"
    /\ \E cfg \in cfgs :
        /\ params' = [ training_file_size |-> Len(corpus),
                       num_threads |-> cfg.num_threads,
                       total_iter |-> cfg.total_iter,
                       negative_samples |-> cfg.negative_samples,
                       window |-> cfg.window,
                       vectors_size |-> cfg.vectors_size ]
        /\ net' = NewNeuralNet(Len(vocab.words), cfg.vectors_size)
        /\ ghost' = [ syn0 |-> net'.syn0, syn1neg |-> net'.syn1neg ]
        /\ wk' = [w \in 0 .. cfg.num_threads - 1 |-> NewWorker]
    /\ locks' = NewLocker
    /\ word_count_actual' = 0
    /\ \E n \in faults : io' = [faults |-> n, failed |-> {}]
    /\ tmain' = [tmain EXCEPT !.pc = "scope"]
    /\ UNCHANGED <<tokvars, vocvars, rtvars, smvars, prev>>

Spawn(faults) == SpawnWith(TrainConfigs, faults)

\* two threads and two epochs, with no I/O failure
LongConfigs ==
    [ num_threads : {2}, total_iter : {2}, negative_samples : {0},
      window : {1}, vectors_size : {1} ]

\* a window of two words on each side, with no I/O failure
WideConfigs ==
    [ num_threads : {1}, total_iter : {1, 2}, negative_samples : {0},
      window : {2}, vectors_size : {1} ]

TrainSpawn == Spawn(0 .. MaxFaults) \/ SpawnWith(LongConfigs \cup WideConfigs, {0})

\* (a slip: main does not wait for its threads)
AllSpawned == TRUE

\* thread::scope returns when every thread it spawned has ended
AllJoined == \A w \in Threads : Exited(w)

\* the end of thread::scope: the results of the threads are dropped with
\* their handles; the panic of a thread is passed on
ScopeJoin ==
    /\ tmain.pc = "scope"
    /\ AllJoined
    /\ tmain' = IF \E w \in Threads : wk[w].pc = "panic"
                THEN [tmain EXCEPT !.pc = "returned", !.result = "panic"]
                ELSE [tmain EXCEPT !.pc = "save"]
    /\ UNCHANGED <<tokvars, vocvars, rtvars, smvars, params, net, locks, wk,
                   word_count_actual, io, ghost, prev>>

\* lines 67-68: net.save(...)?, then Ok(())
NetSave ==
    /\ tmain.pc = "save"
    /\ \E fail \in Failures :
        /\ io' = AfterFailure(-1, "write", fail)
        /\ tmain' = IF fail
                    THEN [tmain EXCEPT !.pc = "returned", !.result = "Err"]
                    ELSE [tmain EXCEPT !.pc = "returned", !.result = "Ok",
                                       !.saves = @ + 1]
    /\ UNCHANGED <<tokvars, vocvars, rtvars, smvars, params, net, locks, wk,
                   word_count_actual, ghost, prev>>

WorkerStep == \E w \in Threads : Worker(w)

TrainNext ==
    \/ LearnVocabulary
    \/ SkipTraining
    \/ TrainSpawn
    \/ WorkerStep
    \/ ScopeJoin
    \/ NetSave

TrainSpec == TrainInit /\ [][TrainNext]_vars

----------------------------------------------------------------------------
(* Training: properties                                                    *)

Spawned == wk # <<>>

InUpdate(w) == wk[w].pc = "rmw"

\* the stripes a worker holds
Held(w) == {s \in DOMAIN locks : locks[s] = w}

\* C14: no two threads are at the same time inside the read-modify-write of
\* the row of the same wordID of the same matrix; every such write is made
\* between lock(wordID) and unlock(wordID), by the holder of the lock of the
\* wordID; and no increment is lost: each matrix is the initial matrix plus
\* all the increments whose writes are done.
C14_RowUpdatesExclusive ==
    Spawned =>
        /\ \A w1, w2 \in Threads :
            w1 # w2 /\ InUpdate(w1) /\ InUpdate(w2)
                => ~(wk[w1].site = wk[w2].site /\ wk[w1].key = wk[w2].key)
        /\ \A w \in Threads :
            InUpdate(w) => wk[w].holds = wk[w].key /\ locks[Stripe(wk[w].key)] = w
        /\ net.syn0 = ghost.syn0
        /\ net.syn1neg = ghost.syn1neg

\* a thread is inside the update of a row whose lock another thread, with
\* an increment of its own for that row, waits for
C14_Witness ==
    /\ Spawned
    /\ \E w1, w2 \in Threads :
        /\ InUpdate(w1)
        /\ wk[w2].pc = "lock"
        /\ wk[w1].site = wk[w2].site
        /\ wk[w1].key = wk[w2].key
        /\ ~CanLock(locks, wk[w2].key)
        /\ \E i \in 1 .. net.layer1_size : wk[w2].neu1[i] # F(0)

\* C15: a worker holds at most one row lock, and only inside the update of
\* the row it locked: not when it calls lock, not at the start of a turn of
\* its loop, not at an epoch restart, not once it has exited with Ok, an
\* error or a panic; and whenever some worker has not exited, some worker
\* that has not exited can take a step (no deadlock on the row locks).
C15_OneLockNoDeadlock ==
    Spawned =>
        /\ \A w \in Threads :
            /\ Cardinality(Held(w)) <= 1
            /\ Held(w) # {} => InUpdate(w) /\ Held(w) = {Stripe(wk[w].holds)}
            /\ wk[w].holds # -1 => InUpdate(w) /\ wk[w].holds = wk[w].key
        /\ (\E w \in Threads : ~Exited(w))
            => \E w \in Threads :
                /\ ~Exited(w)
                /\ wk[w].pc = "lock" => CanLock(locks, wk[w].key)

\* two threads wait for the stripe a third party does not hold: one holds a
\* lock of its own, the other waits for a different key of the same stripe
C15_Witness ==
    /\ Spawned
    /\ \E w1, w2 \in Threads :
        /\ InUpdate(w1)
        /\ Held(w1) # {}
        /\ wk[w2].pc = "lock"
        /\ ~CanLock(locks, wk[w2].key)

\* the failures of I/O operations of the worker threads
WorkerFailures == {f \in io.failed : f[1] \in Threads}

\* C17: if a worker thread had an I/O error (opening the training file,
\* seeking at an epoch reset, reading the training file), train does not
\* return Ok and the vectors are not written.
C17_WorkerFailureFailsRun ==
    tmain.pc = "returned" /\ WorkerFailures # {}
        => tmain.result # "Ok" /\ tmain.saves = 0

\* C18: the input matrix is written at most once, once in a run that returns
\* Ok, and from the moment net.save starts every worker has ended: none is
\* inside a row update and no row lock is held.
C18_SavedOnceAfterJoin ==
    Spawned =>
        /\ tmain.saves <= 1
        /\ tmain.result = "Ok" => tmain.saves = 1
        /\ tmain.pc \in {"save", "returned"} =>
            /\ \A w \in Threads : Exited(w) /\ ~InUpdate(w)
            /\ \A s \in DOMAIN locks : locks[s] = -1

\* a run of two threads that updated rows has returned Ok and saved once
C18_Witness ==
    /\ Spawned
    /\ Cardinality(Threads) = 2
    /\ tmain.pc = "returned"
    /\ tmain.result = "Ok"
    /\ tmain.saves = 1
    /\ net.syn1neg # Zeros(Len(net.syn1neg))

\* C20: from NeuralNet::new to the end of net.save both matrices have
\* vocab_size * layer1_size elements, the assertions of train_model_thread
\* hold, and in a run that returns Ok no element of syn0 is NaN.
C20_SizesAndNoNaN ==
    Spawned =>
        /\ SizesAgree
        /\ tmain.result = "Ok" => ~HasNaN(net.syn0)

----------------------------------------------------------------------------
(* Training under fair scheduling, with a vocabulary learnt from the       *)
(* training file or loaded from a vocabulary file                          *)

\* vocabulary files: "</s> 3\nb 2\ne 1\n", and the same with "f 1\ng 1\n",
\* as many entries as the hash table has slots
TrainVocabFiles ==
    { <<60, 47, 115, 62, 32, 51, 10, 98, 32, 50, 10, 101, 32, 49, 10>>,
      <<60, 47, 115, 62, 32, 51, 10, 98, 32, 50, 10, 101, 32, 49, 10,
        102, 32, 49, 10, 103, 32, 49, 10>> }

\* training files: "a " and "b e "
FairCorpora == { <<97, 32>>, <<98, 32, 101, 32>> }

\* train, called with a training file, with or without a vocabulary file
FairInit ==
    /\ VocabStart
    /\ corpus \in FairCorpora
    /\ \/ mode = "learn" /\ vfile = <<>>
       \/ mode = "load" /\ vfile \in TrainVocabFiles

\* the workers run with no I/O failure
SpawnNoFaults == Spawn({0})

WorkerIds == UNION {0 .. cfg.num_threads - 1 : cfg \in TrainConfigs}

\* a step of thread w, its probing in search_word included
Thread(w) == w \in Threads /\ (Worker(w) \/ SearchSpin(w))

ThreadStep == \E w \in WorkerIds : Thread(w)

FairNext ==
    \/ LearnVocabulary
    \/ LoadFromFile
    \/ SpawnNoFaults
    \/ ThreadStep
    \/ ScopeJoin
    \/ NetSave

\* the operating system lets every thread that can run take its next step
FairSpec ==
    /\ FairInit
    /\ [][FairNext]_vars
    /\ \A w \in WorkerIds : WF_vars(Thread(w))

\* C16: under fair scheduling every worker that was spawned ends with Ok,
\* having gone through EndOfEpoch exactly total_iter times.
C16_WorkersFinish ==
    \A w \in WorkerIds :
        (w \in Threads) ~> (w \in Threads /\ wk[w].pc = "done"
                                /\ wk[w].epochs = params.total_iter)

----------------------------------------------------------------------------
(* Two runs of train on the same training file with the same parameters,   *)
(* one thread and one epoch; a read of the file may return any number of   *)
(* bytes                                                                   *)

\* training files: "a b \n" and "aaa b \n"
DetCorpora ==
    { <<97, 32, 98, 32, 10>>,
      <<97, 97, 97, 32, 98, 32, 10>> }

DetInit ==
    /\ VocabStart
    /\ mode = "learn"
    /\ vfile = <<>>
    /\ corpus \in DetCorpora

\* the configurations with one thread and one epoch
SingleConfigs == {cfg \in TrainConfigs : cfg.num_threads = 1 /\ cfg.total_iter = 1}

\* the configuration of the run that params belongs to
ConfigOf(p) ==
    [ num_threads |-> p.num_threads, total_iter |-> p.total_iter,
      negative_samples |-> p.negative_samples, window |-> p.window,
      vectors_size |-> p.vectors_size ]

\* the threads spawned by the first run, and by the second with the
\* parameters of the first
DetSpawn == SpawnWith(IF prev = None THEN SingleConfigs ELSE {prev[1].cfg}, {0})

DetStep == \E w \in Threads : ReadWordShort(w) \/ Compute(w)

\* the first run has ended: what it left is kept, and train is called again
Rerun ==
    /\ prev = None
    /\ tmain.pc = "returned"
    /\ prev' = Some([ vocab |-> vocab, net |-> net, cfg |-> ConfigOf(params),
                      result |-> tmain.result ])
    /\ vocab' = NewVocabulary
    /\ vphase' = "start"
    /\ params' = <<>>
    /\ tmain' = [pc |-> "idle", saves |-> 0, result |-> ""]
    /\ net' = <<>>
    /\ locks' = <<>>
    /\ wk' = <<>>
    /\ word_count_actual' = 0
    /\ io' = [faults |-> 0, failed |-> {}]
    /\ ghost' = <<>>
    /\ UNCHANGED <<tokvars, mode, vfile, arg_min_count, verr, nextTok, preSort,
                   rtvars, smvars>>

DetNext ==
    \/ LearnVocabulary
    \/ DetSpawn
    \/ DetStep
    \/ ScopeJoin
    \/ NetSave
    \/ Rerun

DetSpec == DetInit /\ [][DetNext]_vars

SecondRunEnded == prev # None /\ tmain.pc = "returned"

\* C19: two runs on the same training file with the same parameters, one
\* thread and one epoch end with the same vocabulary and the same two
\* matrices, element for element.
C19_RunsAgree ==
    SecondRunEnded =>
        /\ vocab = prev[1].vocab
        /\ net = prev[1].net
        /\ tmain.result = prev[1].result

----------------------------------------------------------------------------
(* Training: the part of the training file a worker reads                  *)

\* line 157: the offset of the thread thread_id
StartOffset(thread_id) ==
    (params.training_file_size \div params.num_threads) * thread_id

\* the file position after the last byte read_token has looked at: what the
\* physical reads have passed, less the bytes still waiting in read_buffer
Consumed(fi) == fi.pos - (fi.end_pos - fi.start_pos)

\* C21: the start offsets of the threads are distinct, and the tokenizer of
\* thread t has looked at no byte at or after the start offset of thread
\* t + 1.
C21_DisjointRanges ==
    Spawned =>
        \A t, u \in Threads :
            t < u =>
                /\ StartOffset(t) # StartOffset(u)
                /\ (u = t + 1 /\ wk[t].pc # "start")
                    => Consumed(wk[t].fi) <= StartOffset(u)

----------------------------------------------------------------------------
(* Pruning passes while a vocabulary is learnt                             *)

MaxPruneWords == 7

\* training files: "a ", "b " and "c ", up to MaxPruneWords of them in a row
PrunePieces == {<<97, 32>>, <<98, 32>>, <<99, 32>>}

PruneInit ==
    /\ VocabStart
    /\ mode = "learn"
    /\ vfile = <<>>
    /\ \E pieces \in SeqsUpTo(PrunePieces, MaxPruneWords) : corpus = Flatten(pieces)

\* the scan of learn_vocabulary_from_training_file, callback by callback
PruneNext == LearnBegin \/ WordCallback

PruneSpec == PruneInit /\ [][PruneNext]_vars

\* the entries of a vocabulary, whatever their order
Entries(v) == {v.words[i] : i \in 1 .. Len(v.words)}

\* the entries there are once a word has been counted
Counted(v, word) ==
    IF \E e \in Entries(v) : e.word = word
    THEN {IF e.word = word THEN [e EXCEPT !.count = @ + 1] ELSE e : e \in Entries(v)}
    ELSE Entries(v) \cup {[word |-> word, count |-> 1]}

\* C22: while a vocabulary is learnt, a pruning pass runs after an add_word
\* exactly when there are more distinct entries than 70% of the slots of the
\* hash table; the k-th pass removes every entry with count <= k but the
\* sentinel, keeps every other entry with its count, leaves the sentinel at
\* index 0, and leaves a hash index in which every entry is found at its
\* index.
C22_PruningPass ==
    [][(vphase = "scan" /\ vphase' = "scan" /\ nextTok' = nextTok + 1) =>
        LET k == vocab.min_reduce
            counted == Counted(vocab, word_str(cb[1][nextTok]))
            pruned == 10 * Cardinality(counted) > 7 * VOCAB_HASH_TABLE_SIZE
        IN /\ vocab'.min_reduce = IF pruned THEN k + 1 ELSE k
           /\ Entries(vocab') =
                IF pruned THEN {e \in counted : e.count > k \/ e.word = SENTINEL}
                ELSE counted
           /\ Len(vocab'.words) = Cardinality(Entries(vocab'))
           /\ vocab'.words[1].word = SENTINEL
           /\ \A i \in 1 .. Len(vocab'.words) :
                search_word(vocab', vocab'.words[i].word) = Some(i - 1)
      ]_vars

\* two passes have run, and the second kept a word with a count above 2
\* and the sentinel, whose count is 1
C22_Witness ==
    /\ mode = "learn"
    /\ vphase = "scan"
    /\ vocab.min_reduce = 3
    /\ Len(vocab.words) = 2
    /\ vocab.words[1] = [word |-> SENTINEL, count |-> 1]
    /\ vocab.words[2].count = 3
    /\ vocab.train_words = 4

----------------------------------------------------------------------------
(* Training: the sentence and the words trained on                         *)

\* C23: the sentence of a worker never holds more than MAX_SENTENCE_LENGTH
\* wordIDs.
C23_SentenceWithinCap ==
    Spawned => \A w \in Threads : Len(wk[w].sentence) <= MAX_SENTENCE_LENGTH

\* the states of a worker between line 263 and line 440, where it trains on
\* the word at sentence_position
ProcessesWord(l) == l.pc \in {"context", "sample", "lock", "rmw", "backprop"}

\* what read_word_index returns to the worker w: read_token on the reads the
\* step was made with, then search_word
WordIndexRead(w, plan) ==
    LET r == read_token(wk[w].fi, plan) IN
    [ it |-> r.it,
      idx |-> IF r.res = None THEN None ELSE search_word(vocab, r.res[1]) ]

\* C24: while a worker trains on a word, sentence_position is less than the
\* length of the sentence; every wordID in the sentence is in
\* 1 .. vocab_size - 1; every row a worker locks, reads or writes is the row
\* of a wordID in 0 .. vocab_size - 1; and a token that is not in the
\* vocabulary changes neither the sentence nor word_count, and a sentinel
\* is not stored.
C24_WordsInRange ==
    /\ [](Spawned => \A w \in Threads :
            /\ \A i \in 1 .. Len(wk[w].sentence) :
                wk[w].sentence[i] >= 1 /\ wk[w].sentence[i] <= net.vocab_size - 1
            /\ (ProcessesWord(wk[w]) \/ (wk[w].pc = "check" /\ ~EpochEnds(wk[w])))
                => wk[w].sentence_position < Len(wk[w].sentence)
            /\ wk[w].pc \in {"lock", "rmw"}
                => wk[w].key >= 0 /\ wk[w].key <= net.vocab_size - 1)
    /\ [][Spawned => \A w \in Threads :
            (wk[w].pc = "fill" /\ wk' # wk /\ w \in DOMAIN wk' /\ wk'[w] # wk[w]) =>
                \E plan \in {FullReads, FailedRead} :
                    LET r == WordIndexRead(w, plan) IN
                    /\ wk'[w].fi = r.it
                    /\ r.idx = Some(NOT_FOUND) =>
                        /\ wk'[w].sentence = wk[w].sentence
                        /\ wk'[w].word_count = wk[w].word_count
                        /\ wk'[w].pc = "fill"
                    /\ r.idx = Some(0) =>
                        /\ wk'[w].sentence = wk[w].sentence
                        /\ wk'[w].word_count = wk[w].word_count + 1
      ]_vars

\* the worker that started at offset 0 of "aaaa b b \n" passed over the two
\* tokens "aaa" and "a", which are not in the vocabulary, counted "b" and
\* "b", and adds to the row of a context word
C24_Witness ==
    /\ Spawned
    /\ Len(corpus) = 10
    /\ corpus[4] = 97
    /\ wk[0].pc = "rmw"
    /\ wk[0].site = "in"
    /\ wk[0].key = wk[0].sentence[2]
    /\ wk[0].word_count = 2
    /\ Len(wk[0].sentence) = 2

\* the iterator of a worker is as reset(offset) leaves it: at the offset of
\* the thread, with nothing in its buffer, no token begun and no sentinel due
AtStartOffset(w, fi) ==
    /\ fi.pos = StartOffset(w)
    /\ fi.start_pos = fi.end_pos
    /\ fi.rest = <<>>
    /\ ~fi.output_separator

\* C25: a worker at the test of line 247 ends its epoch exactly when its
\* word_count is above train_words / num_threads or it is at the end of the
\* file with no sentence; an epoch that is not its last leaves word_count and
\* last_word_count 0, the sentence empty and the tokenizer reset to the
\* offset of the thread (unless the seek failed and the thread returned the
\* error), the last leaves the thread done; and the step changes neither
\* matrix.
C25_EndOfEpoch ==
    [][Spawned /\ wk' # <<>> =>
        \A w \in Threads :
            LET l == wk[w]
                n == wk'[w]
                ends == \/ l.word_count > vocab.train_words \div params.num_threads
                        \/ l.eof_reached /\ l.sentence = <<>>
            IN /\ (l.pc = "check" /\ n # l) => (n.epochs = l.epochs + 1 <=> ends)
               /\ n.epochs # l.epochs =>
                    /\ l.pc = "check"
                    /\ n.epochs = l.epochs + 1
                    /\ net' = net
                    /\ IF n.epochs = params.total_iter THEN n.pc = "done"
                       ELSE /\ n.word_count = 0
                            /\ n.last_word_count = 0
                            /\ n.sentence = <<>>
                            /\ \/ n.pc = "err" /\ <<w, "seek">> \in io'.failed
                               \/ /\ n.pc = "loop"
                                  /\ ~n.eof_reached
                                  /\ AtStartOffset(w, n.fi)
      ]_vars

\* both threads of a run of two epochs on a training file of ten bytes have
\* ended their first epoch and are about to read the file again, each from
\* its own offset
C25_Witness ==
    /\ Spawned
    /\ Len(corpus) = 10
    /\ params.num_threads = 2
    /\ params.total_iter = 2
    /\ \A w \in Threads :
        /\ wk[w].epochs = 1
        /\ wk[w].pc = "fill"
        /\ wk[w].word_count = 0
        /\ AtStartOffset(w, wk[w].fi)

\* the word a worker trains on: sentence[sentence_position]
CentreWord(l) == l.sentence[l.sentence_position + 1]

\* C26: for a word with context words, the first pair trained is the word
\* itself with label 1; every later pair has label 0 and a target that is
\* not the word; there are at most negative_samples later pairs; and a
\* sampled target equal to the word is passed over: the worker goes on to
\* the next turn of the loop, no matrix changes, no lock is taken, nothing
\* fails.
C26_TrainingPairs ==
    /\ [](Spawned => \A w \in Threads :
            (wk[w].pc \in {"lock", "rmw"} /\ wk[w].site = "out") =>
                /\ wk[w].cw > 0
                /\ wk[w].d <= params.negative_samples
                /\ wk[w].d = 0 => wk[w].key = CentreWord(wk[w]) /\ wk[w].label = 1
                /\ wk[w].d >= 1 => wk[w].key # CentreWord(wk[w]) /\ wk[w].label = 0)
    /\ [][Spawned /\ wk' # <<>> => \A w \in Threads :
            (/\ wk[w].pc = "sample"
             /\ wk'[w] # wk[w]
             /\ wk[w].d >= 1
             /\ wk[w].d <= params.negative_samples
             /\ sample_random_word(vocab, next_rand(wk[w].rand)).target = CentreWord(wk[w]))
            => /\ sample_random_word(vocab, next_rand(wk[w].rand)).kind = "ok"
               /\ wk'[w].pc = "sample"
               /\ wk'[w].d = wk[w].d + 1
               /\ net' = net
               /\ locks' = locks
      ]_vars

\* a worker has passed over a sampled target that was the word trained on:
\* the turn for the one negative sample is over and syn1neg has the update
\* of the first pair only
C26_Witness ==
    /\ Spawned
    /\ params.negative_samples = 1
    /\ \E w \in Threads :
        /\ wk[w].pc = "sample"
        /\ wk[w].d = 2
        /\ wk[w].rand # w
        /\ sample_random_word(vocab, wk[w].rand).target = CentreWord(wk[w])

\* the radius of the window drawn for the word trained on, and the
\* positions of the sentence within it, the word's own excepted
Radius(l) == params.window - l.b

ContextPositions(l) ==
    {c \in 0 .. Len(l.sentence) - 1 :
        /\ c # l.sentence_position
        /\ c - l.sentence_position <= Radius(l)
        /\ l.sentence_position - c <= Radius(l)}

\* C27: the radius window - b of the window of a word is in 1 .. window; the
\* rows summed into neu1 are those of the positions c of the sentence with
\* c # sentence_position and |c - sentence_position| <= radius, each once;
\* the rows neu1e is added to are the rows of the same positions; and when
\* there is no such position no row is written and no lock is taken for the
\* word.
C27_ContextWindow ==
    /\ [](Spawned => \A w \in Threads :
            ProcessesWord(wk[w]) =>
                /\ Radius(wk[w]) >= 1
                /\ Radius(wk[w]) <= params.window
                /\ wk[w].a >= wk[w].b
                /\ \A c \in ContextPositions(wk[w]) :
                    LET a == c - wk[w].sentence_position + params.window IN
                    /\ a >= wk[w].b
                    /\ a < WindowEnd(wk[w])
                /\ wk[w].pc = "context" =>
                    wk[w].cw = Cardinality({c \in ContextPositions(wk[w]) :
                        c - wk[w].sentence_position + params.window < wk[w].a})
                /\ wk[w].pc # "context" =>
                    /\ wk[w].cw = Cardinality(ContextPositions(wk[w]))
                    /\ wk[w].cw > 0
                /\ (wk[w].pc \in {"lock", "rmw"} /\ wk[w].site = "in") =>
                    /\ ContextIndex(wk[w]) \in ContextPositions(wk[w])
                    /\ wk[w].key = wk[w].sentence[ContextIndex(wk[w]) + 1])
    /\ [][Spawned /\ wk' # <<>> => \A w \in Threads :
            LET l == wk[w]
                n == wk'[w]
                used == l.a < WindowEnd(l) /\ ContextIndex(l) \in ContextPositions(l)
            IN /\ (l.pc = "context" /\ n # l) =>
                    /\ net' = net
                    /\ locks' = locks
                    /\ l.a < WindowEnd(l) =>
                        /\ n.a = l.a + 1
                        /\ n.cw = IF used THEN l.cw + 1 ELSE l.cw
                        /\ n.neu1 = IF used
                                    THEN VecAdd(l.neu1, Row(net.syn0,
                                                            l.sentence[ContextIndex(l) + 1],
                                                            net.layer1_size))
                                    ELSE l.neu1
                    /\ l.a >= WindowEnd(l) =>
                        /\ l.cw = Cardinality(ContextPositions(l))
                        /\ n.pc = IF l.cw > 0 THEN "sample" ELSE "loop"
               /\ (l.pc = "backprop" /\ n # l /\ l.a < WindowEnd(l)) =>
                    IF used THEN n.pc = "lock" /\ n.site = "in" /\ n.a = l.a
                    ELSE n.pc = "backprop" /\ n.a = l.a + 1
      ]_vars

\* with a window of 2 and a sentence of three words, a worker adds neu1e to
\* the row of the word two positions after the word it trains on
C27_Witness ==
    /\ Spawned
    /\ params.window = 2
    /\ \E w \in Threads :
        /\ wk[w].pc = "rmw"
        /\ wk[w].site = "in"
        /\ Len(wk[w].sentence) = 3
        /\ wk[w].sentence_position = 0
        /\ ContextIndex(wk[w]) = 2
        /\ Radius(wk[w]) = 2

----------------------------------------------------------------------------
(* Training: the progress counter                                          *)

\* how often the threads 0 .. n - 1 have executed `word_count += 1`
RECURSIVE CountedBy(_)
CountedBy(n) == IF n = 0 THEN 0 ELSE wk[n - 1].counted + CountedBy(n - 1)

\* C28: word_count_actual changes only when a worker, at the top of its
\* loop with word_count - last_word_count above PROGRESS_STEP, adds that
\* difference to it and sets last_word_count to word_count; it never
\* decreases and is never more than the number of words all the workers
\* have counted; and the learning rate of a worker is computed anew only in
\* such a step.
C28_ProgressCounter ==
    /\ [](Spawned =>
            /\ word_count_actual >= 0
            /\ word_count_actual <= CountedBy(params.num_threads)
            /\ \A w \in Threads : wk[w].last_word_count <= wk[w].word_count)
    /\ [][Spawned /\ wk' # <<>> =>
            /\ word_count_actual' >= word_count_actual
            /\ \A w \in Threads :
                LET l == wk[w]
                    n == wk'[w]
                    delta == l.word_count - l.last_word_count
                    flush == /\ l.pc = "loop"
                             /\ delta > PROGRESS_STEP
                             /\ word_count_actual' = word_count_actual + delta
                             /\ n.last_word_count = l.word_count
                             /\ n.word_count = l.word_count
                IN /\ n.alpha_wc # l.alpha_wc => flush /\ n.alpha_wc = word_count_actual'
                   /\ (n # l /\ word_count_actual' # word_count_actual) => flush
                   /\ (n # l /\ l.pc = "loop" /\ delta > PROGRESS_STEP) => flush
      ]_vars

\* both threads of a run have added to the counter, and it is less than
\* what the two have counted
C28_Witness ==
    /\ Spawned
    /\ params.num_threads = 2
    /\ \A w \in Threads : wk[w].alpha_wc > 0
    /\ wk[0].alpha_wc # wk[1].alpha_wc
    /\ word_count_actual > 2 * PROGRESS_STEP
    /\ word_count_actual < CountedBy(params.num_threads)

----------------------------------------------------------------------------
(* The sampling table                                                      *)

\* a vocabulary is learnt or loaded, and then sampled from
TableNext == VocabNext \/ SampleRandomWord

TableInit ==
    /\ VocabStart
    /\ \/ /\ mode = "learn"
          /\ \E pieces \in SeqsUpTo(CorpusPieces, MaxSamplePieces) : corpus = Flatten(pieces)
          /\ vfile = <<>>
       \/ /\ mode = "load"
          /\ vfile \in VocabFiles
          /\ corpus = <<>>

TableSpec == TableInit /\ [][TableNext]_vars

\* C29: once init_unigram_table has run (the vocabulary was learnt or loaded)
\* the table has UNIGRAM_TABLE_SIZE slots and no later step changes it; slot 0
\* holds wordID 0, each slot holds the value of the slot before it or one
\* more, and every slot holds an index of `words`; the walk never indexes
\* `words` past its last entry (init_unigram_table's only panic is its
\* assertion on an empty vocabulary).
C29_UnigramTable ==
    /\ [](/\ vphase = "Ok" =>
                LET table == vocab.unigram_table IN
                /\ Len(table) = UNIGRAM_TABLE_SIZE
                /\ table[1] = 0
                /\ \A i \in 1 .. Len(table) - 1 : table[i + 1] - table[i] \in {0, 1}
                /\ \A i \in 1 .. Len(table) : table[i] >= 0 /\ table[i] < Len(vocab.words)
          /\ verr # "index out of bounds"
          /\ (mode = "learn" /\ vphase = "panic") => vocab.words = <<>>)
    /\ [][vphase = "Ok" => vocab'.unigram_table = vocab.unigram_table]_vars

\* a vocabulary of three words or more whose table has walked over three of
\* them, after a word was sampled from it
C29_Witness ==
    /\ vphase = "Ok"
    /\ sampled # None
    /\ Len(vocab.words) >= 3
    /\ vocab.unigram_table[UNIGRAM_TABLE_SIZE] = 2

----------------------------------------------------------------------------
(* The two tokenizers side by side                                         *)

\* the words learn_vocabulary_from_training_file counts: the tokens passed
\* to the callback of read_file_by_tokens, as the callback reads them
CallbackWords == [i \in 1 .. Len(cb[1]) |-> word_str(cb[1][i])]

\* C30: on every corpus the tokens read_token returns from offset 0 up to
\* end-of-sequence are the tokens read_file_by_tokens passes to its callback,
\* sentinels included, in the same order.
C30_SameTokens ==
    (offset = 0 /\ eosAt # -1 /\ cb # None) => Iterated = CallbackWords

----------------------------------------------------------------------------
(* Training: the reads of the rows                                         *)

\* the row of a matrix that the step of a worker from l to n reads without a
\* lock: a context row of syn0 summed into neu1 (lines 281-291), or the row
\* of syn1neg of the target, for the dot product and the gradient (340-367);
\* <<>> when the step reads none
UnlockedRead(l, n) ==
    IF l.pc = "context" /\ n.pc = "context" /\ n.cw = l.cw + 1
    THEN <<"in", l.sentence[ContextIndex(l) + 1]>>
    ELSE IF l.pc = "sample" /\ n.pc = "lock"
    THEN <<"out", n.key>>
    ELSE <<>>

\* C31: no worker reads a row of a matrix, outside the locked updates, while
\* another worker is inside the locked read-modify-write of the same row of
\* the same matrix.
C31_NoReadDuringUpdate ==
    [][Spawned /\ wk' # <<>> =>
        \A w1, w2 \in Threads :
            (w1 # w2 /\ InUpdate(w2) /\ wk'[w1] # wk[w1])
                => UnlockedRead(wk[w1], wk'[w1]) # <<wk[w2].site, wk[w2].key>>
      ]_vars

----------------------------------------------------------------------------
(* The hash table's empty slots                                            *)

EmptySlots(v) == {i \in 1 .. Len(v.hash_table) : v.hash_table[i] = NOT_FOUND}

\* C32: while a vocabulary is learnt, and in every vocabulary learnt or
\* loaded, the hash table has an empty slot, and no probing loop (of
\* search_word, get_word_indices or rebuild_hashtable) goes on for ever.
C32_ProbingTerminates ==
    /\ vphase # "loops"
    /\ vphase \in {"scan", "Ok"} => EmptySlots(vocab) # {}

----------------------------------------------------------------------------
(* Training: the unsigned arithmetic of the worker loop                    *)

\* the configurations the command line accepts that the other runs leave
\* out: --iter 0 and --window 0 (src/src/main.rs:135-166 checks neither)
IterConfigs ==
    [ num_threads : {1}, total_iter : {0, 1}, negative_samples : {0},
      window : {0, 1}, vectors_size : {1} ]

IterSpawn == SpawnWith(IterConfigs, 0 .. MaxFaults)

IterNext ==
    \/ LearnVocabulary
    \/ SkipTraining
    \/ IterSpawn
    \/ WorkerStep
    \/ ScopeJoin
    \/ NetSave

IterSpec == TrainInit /\ [][IterNext]_vars

\* C33: no unsigned subtraction of the worker loop goes below zero, in any
\* configuration, total_iter = 0 included: last_word_count <= word_count
\* whenever word_count - last_word_count is evaluated (the top of the thread
\* loop), local_iter >= 1 whenever it is decremented (an epoch ends), and
\* b < window whenever window * 2 + 1 - b is computed (the two loops over
\* the context window).
C33_NoUnderflow ==
    /\ [](Spawned =>
            \A w \in Threads :
                /\ wk[w].pc = "loop" => wk[w].last_word_count <= wk[w].word_count
                /\ wk[w].pc \in {"context", "backprop"} => wk[w].b < params.window)
    /\ [][Spawned /\ wk' # <<>> =>
            \A w \in Threads :
                (wk[w].pc = "check" /\ EpochEnds(wk[w]) /\ wk'[w] # wk[w])
                    => wk[w].local_iter >= 1
         ]_vars

====
